---- MODULE Spec2Model ----
(***************************************************************************)
(* Stable matching with couples (smp_c.py, cplex_py.py): the instance      *)
(* loader, the SAT and MIP encoders, the external solvers seen as a        *)
(* nondeterministic choice among the solutions of the emitted constraint   *)
(* system, the two decoders, the two verify-mode evaluators and main.      *)
(*                                                                         *)
(* Names: a DIMACS variable is its integer id; the registry name of a      *)
(* variable ('xr_%d,%d', 'xc_%d,%d,%d', 'q_%d,%d,%d', 'cpref_%d,%d') and   *)
(* the name of an LP variable ('x_%d,%d', 'x_%d,%d,%d', 'alpha_%d,%d') are *)
(* tuples <<prefix, n1, n2, ...>>: the prefix and the comma separated      *)
(* integers of the string.                                                 *)
(***************************************************************************)
EXTENDS Integers, Sequences, FiniteSets, TLC

NIL_HOSPITAL_UID == 999999
NIL_HOSPITAL_SYMBOL == -1
NIL_CAPACITY == 10

(***************************************************************************)
(* Sequences                                                               *)
(***************************************************************************)
\* the fold of Op over s from acc; each step is evaluated before the fold
\* goes on, so that the pending steps do not nest
RECURSIVE FoldSeq(_, _, _)
FoldSeq(Op(_, _), acc, s) ==
    IF s = <<>> THEN acc
    ELSE LET next == Op(acc, Head(s))
         IN  IF <<next>> = <<>> THEN acc ELSE FoldSeq(Op, next, Tail(s))

Range(s) == {s[i] : i \in 1..Len(s)}

\* list.index(x) + 1, or 0 when x is not in the list
IndexOf(l, x) ==
    IF \E i \in 1..Len(l) : l[i] = x
    THEN CHOOSE i \in 1..Len(l) : l[i] = x /\ \A k \in 1..(i - 1) : l[k] # x
    ELSE 0

LastIndexOf(l, x) ==
    IF \E i \in 1..Len(l) : l[i] = x
    THEN CHOOSE i \in 1..Len(l) : l[i] = x /\ \A k \in (i + 1)..Len(l) : l[k] # x
    ELSE 0

Reverse(l) == [i \in 1..Len(l) |-> l[Len(l) + 1 - i]]

\* [f(x) for x in l]
MapSeq(f(_), l) == [i \in 1..Len(l) |-> f(l[i])]

\* the concatenation of the lists f(x), x in l
FlatMap(f(_), l) == FoldSeq(LAMBDA acc, x : acc \o f(x), <<>>, l)

\* the duplicate-free sequences over S of length lo..hi
SeqsNoDup(S, lo, hi) ==
    {s \in UNION {[1..n -> S] : n \in lo..hi} :
        \A i, j \in 1..Len(s) : i # j => s[i] # s[j]}

Permutations_(S) == SeqsNoDup(S, Cardinality(S), Cardinality(S))

(***************************************************************************)
(* ListPreferenceFunction: the list is in decreasing preference order      *)
(***************************************************************************)
get_all_preferred(internal_list, uid) ==
    SubSeq(internal_list, 1, IndexOf(internal_list, uid) - 1)

\* a get_all_dispreferred that returns uid with the items after it
get_all_dispreferred_mutant(internal_list, uid) ==
    Reverse(SubSeq(internal_list, LastIndexOf(internal_list, uid),
                   Len(internal_list)))

\* iterates the reversed list up to uid: the items after the last occurrence
\* of uid, least preferred first
get_all_dispreferred(internal_list, uid) ==
    Reverse(SubSeq(internal_list, LastIndexOf(internal_list, uid) + 1,
                   Len(internal_list)))

get_all_weakly_preferred(internal_list, uid) ==
    get_all_preferred(internal_list, uid) \o <<uid>>

get_rank(internal_list, uid) == IndexOf(internal_list, uid) - 1

(***************************************************************************)
(* ListJointPreferenceFunction: indices are the 0-based coordinates that   *)
(* must remain fixed                                                       *)
(***************************************************************************)
check_suitability(assignment, to_test, indices) ==
    \A i \in 1..Len(to_test) :
        (i - 1) \in indices => to_test[i] = assignment[i]

joint_get_all_weakly_preferred(internal_list, assignment, indices) ==
    LET n == IndexOf(internal_list, assignment)
    IN  SelectSeq(SubSeq(internal_list, 1, n - 1),
                  LAMBDA a : check_suitability(assignment, a, indices))
        \o <<assignment>>

joint_get_all_dispreferred(internal_list, assignment, indices) ==
    SelectSeq(Reverse(SubSeq(internal_list,
                             LastIndexOf(internal_list, assignment) + 1,
                             Len(internal_list))),
              LAMBDA a : check_suitability(assignment, a, indices))

(***************************************************************************)
(* Agents.  An agent is equal to another one when the uids are equal       *)
(* (Agent.__eq__, Agent.__hash__), so dictionaries keyed by agents are     *)
(* functions of uids.                                                      *)
(***************************************************************************)
Hospital(uid, capacity, internal_list) ==
    [uid |-> uid, capacity |-> capacity, prefs |-> internal_list]

\* NilHospital: no preference function, capacity 10
NIL_HOSPITAL == Hospital(NIL_HOSPITAL_UID, NIL_CAPACITY, <<>>)

\* couple: <<>> for None, <<c>> for the couple c the resident belongs to
Resident(uid, internal_list, couple) ==
    [uid |-> uid, prefs |-> internal_list, couple |-> couple]

NoCouple == <<>>

\* list(set(l)): the distinct elements of l in the iteration order of the
\* set, which the language leaves open; order lists every uid once
list_set(l, order) == SelectSeq(order, LAMBDA u : u \in Range(l))

\* Couple.__init__: ranked_hospitals[member] = list(set(projection))
Couple(uid, residents, internal_list, order) ==
    [uid |-> uid, residents |-> residents, prefs |-> internal_list,
     ranked_hospitals |->
        << list_set(MapSeq(LAMBDA p : p[1], internal_list), order),
           list_set(MapSeq(LAMBDA p : p[2], internal_list), order) >>]

\* couple.residents[k], the Resident object made for the couple (k = 0, 1)
couple_member(couple, k) == Resident(couple.residents[k + 1], <<>>, <<couple>>)

\* Couple.get_ranked_hospitals(member), member = 0 or 1
get_ranked_hospitals(couple, member) == couple.ranked_hospitals[member + 1]

\* Hospital.get_all_weakly_preferred; NilHospital overrides it by []
h_get_all_weakly_preferred(h, uid) ==
    IF h.uid = NIL_HOSPITAL_UID THEN <<>>
    ELSE get_all_weakly_preferred(h.prefs, uid)

(***************************************************************************)
(* Problem files.  A line is a record: kind "r" (uid, rol), "p" (uid,      *)
(* capacity, rol), "c" (uid, r0, r1, rol: the pairs of tokens), "#" (a     *)
(* comment) or anything else (not readable).  Tokens are integers, -1 is   *)
(* the nil-hospital symbol.                                                *)
(***************************************************************************)
RLine(uid, rol) == [kind |-> "r", uid |-> uid, rol |-> rol]
PLine(uid, capacity, rol) ==
    [kind |-> "p", uid |-> uid, capacity |-> capacity, rol |-> rol]
CLine(uid, r0, r1, rol) ==
    [kind |-> "c", uid |-> uid, r0 |-> r0, r1 |-> r1, rol |-> rol]

\* int(token) if token != NIL_HOSPITAL_SYMBOL else NIL_HOSPITAL_UID
pair_token(t) == IF t = NIL_HOSPITAL_SYMBOL THEN NIL_HOSPITAL_UID ELSE t

\* rol[-1] of a non-empty list
Last(l) == l[Len(l)]

\* the "r" branch of from_file; L is the loader's state
from_file_r(L, line, append_nil) ==
    LET local_resident_dict == {}
        rol0 == line.rol
        rol1 == IF append_nil /\ rol0 # <<>> /\ Last(rol0) = NIL_HOSPITAL_SYMBOL
                THEN SubSeq(rol0, 1, Len(rol0) - 1) ELSE rol0
        rol2 == IF append_nil /\ rol1 # <<>> /\ Last(rol1) # NIL_HOSPITAL_UID
                THEN Append(rol1, NIL_HOSPITAL_UID) ELSE rol1
        s == Resident(line.uid, rol2, NoCouple)
    IN  IF line.uid \in local_resident_dict
        THEN [L EXCEPT !.err = "duplicate resident"]
        ELSE IF append_nil /\ (rol0 = <<>> \/ rol1 = <<>>)
        THEN [L EXCEPT !.err = "IndexError"]
        ELSE [L EXCEPT !.resident_dict = (line.uid :> s) @@ @,
                       !.singles = Append(@, s)]

\* the "p" branch
from_file_p(L, line) ==
    LET local_hospital_dict == {}
        h == Hospital(line.uid, line.capacity, line.rol)
    IN  IF line.uid \in local_hospital_dict
        THEN [L EXCEPT !.err = "duplicate program"]
        ELSE [L EXCEPT !.hospital_dict = (line.uid :> h) @@ @,
                       !.hospitals = Append(@, h)]

\* the "c" branch
from_file_c(L, line, append_nil, order) ==
    LET local_resident_dict == {}
        local_couple_dict == {}
        rol0 == MapSeq(LAMBDA p : <<pair_token(p[1]), pair_token(p[2])>>,
                       line.rol)
        rol1 == IF append_nil /\ rol0 # <<>>
                   /\ Last(rol0) # <<NIL_HOSPITAL_UID, NIL_HOSPITAL_UID>>
                THEN Append(rol0, <<NIL_HOSPITAL_UID, NIL_HOSPITAL_UID>>)
                ELSE rol0
        c  == Couple(line.uid, <<line.r0, line.r1>>, rol1, order)
        r0 == couple_member(c, 0)
        r1 == couple_member(c, 1)
    IN  IF line.uid \in local_couple_dict
        THEN [L EXCEPT !.err = "duplicate couple"]
        ELSE IF line.r0 \in local_resident_dict \/ line.r1 \in local_resident_dict
        THEN [L EXCEPT !.err = "resident in couple already defined"]
        ELSE IF append_nil /\ rol0 = <<>>
        THEN [L EXCEPT !.err = "IndexError"]
        ELSE [L EXCEPT !.resident_dict = (line.r1 :> r1) @@ (line.r0 :> r0) @@ @,
                       !.couple_dict = (line.uid :> c) @@ @,
                       !.couples = Append(@, c)]

from_file_line(L, line, append_nil, order) ==
    IF L.err # "" \/ line.kind = "#" THEN L
    ELSE IF line.kind = "r" THEN from_file_r(L, line, append_nil)
    ELSE IF line.kind = "p" THEN from_file_p(L, line)
    ELSE IF line.kind = "c" THEN from_file_c(L, line, append_nil, order)
    ELSE [L EXCEPT !.err = "line not readable"]

\* ProblemInstance.from_file: the instance (hospitals, singles, couples) or
\* the exception raised, and the module-level dictionaries afterwards
from_file(file, append_nil, rd, hd, cd, order) ==
    FoldSeq(LAMBDA L, line : from_file_line(L, line, append_nil, order),
            [err |-> "", hospitals |-> <<>>, singles |-> <<>>, couples |-> <<>>,
             resident_dict |-> rd, hospital_dict |-> hd, couple_dict |-> cd],
            file)

(***************************************************************************)
(* solve_sat, the encoder.  Its state e: last_uid (var_uid_allocator),     *)
(* registry (variable_registry, by id), res_match (by <<resident uid,      *)
(* hospital uid>>), q (by <<hospital uid, i, j>>), cpref (by <<couple uid, *)
(* number>>), clauses (the DIMACS clauses in the order of the appends) and *)
(* err (the exception that ended the encoding, "" for none).  P is the     *)
(* instance with the module-level dictionaries the encoder reads.          *)
(***************************************************************************)
Raise(e, name) == [e EXCEPT !.err = name]

\* UIDAllocator.allocate_uid and the variable_registry entry of the new id
allocate_uid(e, name) ==
    [e EXCEPT !.last_uid = @ + 1, !.registry = Append(@, name)]

\* constraints.append(DIMACSClause(var_list))
append_clause(e, var_list) == [e EXCEPT !.clauses = Append(@, var_list)]

append_clauses(e, ls) == [e EXCEPT !.clauses = @ \o ls]

HasMatchVar(e, r_uid, h_uid) == <<r_uid, h_uid>> \in DOMAIN e.res_match

\* the matching variables of one resident over the list ordering, the nil
\* variable after them, and the at-least-one clause; a variable is
\* registered under prefix and the uid of its hospital
sat_match_vars(e, P, r_uid, ordering, prefix) ==
    IF e.err # "" THEN e
    ELSE IF \E h \in DOMAIN P.hospital_dict : HasMatchVar(e, r_uid, h)
    THEN Raise(e, "AssertionError")
    ELSE IF \E i \in 1..Len(ordering) : ordering[i] \notin DOMAIN P.hospital_dict
    THEN Raise(e, "KeyError")
    ELSE
    LET e1 == FoldSeq(LAMBDA acc, h_uid :
                        LET a == allocate_uid(acc, prefix \o <<h_uid>>)
                        IN  [a EXCEPT !.res_match =
                                (<<r_uid, h_uid>> :> a.last_uid) @@ @],
                      e, ordering)
        a2 == allocate_uid(e1, prefix \o <<NIL_HOSPITAL_UID>>)
        e2 == [a2 EXCEPT !.res_match =
                  (<<r_uid, NIL_HOSPITAL_UID>> :> a2.last_uid) @@ @]
    IN  append_clause(e2,
            MapSeq(LAMBDA h_uid : e2.res_match[<<r_uid, h_uid>>], ordering)
            \o <<e2.res_match[<<r_uid, NIL_HOSPITAL_UID>>]>>)

sat_single_vars(e, P) ==
    FoldSeq(LAMBDA acc, resident :
                sat_match_vars(acc, P, resident.uid, resident.prefs,
                               <<"xr", resident.uid>>),
            e, P.singles)

sat_couple_vars(e, P) ==
    FoldSeq(LAMBDA acc, couple :
        FoldSeq(LAMBDA acc2, m :
                    sat_match_vars(acc2, P, couple.residents[m + 1],
                        get_ranked_hospitals(couple, m),
                        <<"xc", couple.uid, couple.residents[m + 1]>>),
                acc, <<0, 1>>),
        e, P.couples)

\* combinations(l, 2) in the order of the generator
combinations2(l) ==
    FlatMap(LAMBDA i : [k \in 1..(Len(l) - i) |-> <<l[i], l[i + k]>>],
            [i \in 1..Len(l) |-> i])

at_most_one(e, r_uid, l) ==
    IF e.err # "" THEN e
    ELSE append_clauses(e,
            MapSeq(LAMBDA hh : << -e.res_match[<<r_uid, hh[1]>>],
                                  -e.res_match[<<r_uid, hh[2]>>] >>,
                   combinations2(l)))

\* no resident can be assigned to two hospitals
sat_single_amo(e, P) ==
    FoldSeq(LAMBDA acc, resident :
                at_most_one(acc, resident.uid,
                            resident.prefs \o <<NIL_HOSPITAL_UID>>),
            e, P.singles)

\* no member of a couple can be assigned to two hospitals: the combinations
\* of set(ranked + [nil]), in the iteration order of the set
sat_couple_amo(e, P, order) ==
    FoldSeq(LAMBDA acc, couple :
        FoldSeq(LAMBDA acc2, m :
                    at_most_one(acc2, couple.residents[m + 1],
                        list_set(get_ranked_hospitals(couple, m)
                                 \o <<NIL_HOSPITAL_UID>>, order)),
                acc, <<0, 1>>),
        e, P.couples)

Min(a, b) == IF a <= b THEN a ELSE b

\* q_clauses without the clause that makes q[h][i][i] true when the first
\* i residents are all matched to h
q_clauses_mutant(e, h, i, j, y) ==
    LET Q(a, b) == e.q[<<h.uid, a, b>>]
    IN  IF j = 0
        THEN << << -y, -Q(i, 0) >>,
                << Q(i - 1, 0), -Q(i, 0) >>,
                << y, -Q(i - 1, 0), Q(i, 0) >> >>
        ELSE IF j = i
        THEN << << y, -Q(i, j) >>,
                << Q(i - 1, j - 1), -Q(i, j) >> >>
        ELSE << << -y, -Q(i - 1, j - 1), Q(i, j) >>,
                << y, -Q(i - 1, j), Q(i, j) >>,
                << y, Q(i - 1, j), -Q(i, j) >>,
                << -y, Q(i - 1, j - 1), -Q(i, j) >> >>

\* the clauses that define q[h][i][j], y the matching variable of the i-th
\* resident of h
q_clauses(e, h, i, j, y) ==
    LET Q(a, b) == e.q[<<h.uid, a, b>>]
    IN  IF j = 0
        THEN << << -y, -Q(i, 0) >>,
                << Q(i - 1, 0), -Q(i, 0) >>,
                << y, -Q(i - 1, 0), Q(i, 0) >> >>
        ELSE IF j = i
        THEN << << y, -Q(i, j) >>,
                << Q(i - 1, j - 1), -Q(i, j) >>,
                << -y, -Q(i - 1, j - 1), Q(i, j) >> >>
        ELSE << << -y, -Q(i - 1, j - 1), Q(i, j) >>,
                << y, -Q(i - 1, j), Q(i, j) >>,
                << y, Q(i - 1, j), -Q(i, j) >>,
                << -y, Q(i - 1, j - 1), -Q(i, j) >> >>

\* one round of the loop over i for hospital h: the variables q[h][i][*],
\* their defining clauses and the capacity assertion
sat_q_row(e, h, i) ==
    LET nj == Min(i + 1, h.capacity + 2)
        e1 == FoldSeq(LAMBDA acc, j :
                        LET a == allocate_uid(acc, <<"q", h.uid, i, j>>)
                        IN  [a EXCEPT !.q = (<<h.uid, i, j>> :> a.last_uid) @@ @],
                      e, [k \in 1..nj |-> k - 1])
        y  == e1.res_match[<<h.prefs[i], h.uid>>]
        Q(a, b) == e1.q[<<h.uid, a, b>>]
        e2 == IF i = 1
              THEN append_clauses(e1,
                      << << y, Q(1, 0) >>, << -y, Q(1, 1) >>,
                         << -y, -Q(1, 0) >>, << y, -Q(1, 1) >> >>)
              ELSE FoldSeq(LAMBDA acc, j :
                              append_clauses(acc, q_clauses(e1, h, i, j, y)),
                           e1, [k \in 1..nj |-> k - 1])
    IN  IF i >= h.capacity + 1
        THEN append_clause(e2, << -Q(i, h.capacity + 1) >>)
        ELSE e2

\* counter variables: q[h][i][j], after summing the i most preferred matching
\* variables of h the total is j
sat_q(e, P) ==
    FoldSeq(LAMBDA acc, h :
        IF acc.err # "" THEN acc
        ELSE IF \E i \in 1..Len(h.prefs) :
                    \/ h.prefs[i] \notin DOMAIN P.resident_dict
                    \/ ~HasMatchVar(acc, h.prefs[i], h.uid)
        THEN Raise(acc, "KeyError")
        ELSE FoldSeq(LAMBDA acc2, i : sat_q_row(acc2, h, i),
                     acc, [i \in 1..Len(h.prefs) |-> i]),
        e, P.hospitals)

\* cpref of one couple without the clause that ties cpref above rank 0 to
\* the matching variable of the first member
sat_cpref_couple_mutant(e, P, couple) ==
    LET ordering == couple.prefs
        r0 == couple.residents[1]
        r1 == couple.residents[2]
        n  == Len(ordering)
        step(acc, number) ==
            LET a  == allocate_uid(acc, <<"cpref", couple.uid, number>>)
                a1 == [a EXCEPT !.cpref =
                          (<<couple.uid, number>> :> a.last_uid) @@ @]
                cp == a1.last_uid
                m0 == IF number = n THEN a1.res_match[<<r0, NIL_HOSPITAL_UID>>]
                      ELSE a1.res_match[<<r0, ordering[number + 1][1]>>]
                m1 == IF number = n THEN a1.res_match[<<r1, NIL_HOSPITAL_UID>>]
                      ELSE a1.res_match[<<r1, ordering[number + 1][2]>>]
            IN  IF number = 0
                THEN append_clauses(a1,
                        << << -cp, m0 >>, << -cp, m1 >>, << cp, -m0, -m1 >> >>)
                ELSE LET prev == a1.cpref[<<couple.uid, number - 1>>]
                     IN  append_clauses(a1,
                            << << -cp, prev, m1 >>,
                               << cp, -prev >>, << cp, -m0, -m1 >> >>)
    IN  IF e.err # "" THEN e
        ELSE IF n = 0 \/ \E i \in 1..n : \E k \in 1..2 :
                            ordering[i][k] \notin DOMAIN P.hospital_dict
        THEN Raise(e, "KeyError")
        ELSE FoldSeq(step, e, [k \in 1..(n + 1) |-> k - 1])

\* cpref[couple][number]: the couple is matched to the pair of rank number
\* or to a pair above it; number = len(ordering) stands for (nil, nil)
sat_cpref_couple(e, P, couple) ==
    LET ordering == couple.prefs
        r0 == couple.residents[1]
        r1 == couple.residents[2]
        n  == Len(ordering)
        step(acc, number) ==
            LET a  == allocate_uid(acc, <<"cpref", couple.uid, number>>)
                a1 == [a EXCEPT !.cpref =
                          (<<couple.uid, number>> :> a.last_uid) @@ @]
                cp == a1.last_uid
                m0 == IF number = n THEN a1.res_match[<<r0, NIL_HOSPITAL_UID>>]
                      ELSE a1.res_match[<<r0, ordering[number + 1][1]>>]
                m1 == IF number = n THEN a1.res_match[<<r1, NIL_HOSPITAL_UID>>]
                      ELSE a1.res_match[<<r1, ordering[number + 1][2]>>]
            IN  IF number = 0
                THEN append_clauses(a1,
                        << << -cp, m0 >>, << -cp, m1 >>, << cp, -m0, -m1 >> >>)
                ELSE LET prev == a1.cpref[<<couple.uid, number - 1>>]
                     IN  append_clauses(a1,
                            << << -cp, prev, m0 >>, << -cp, prev, m1 >>,
                               << cp, -prev >>, << cp, -m0, -m1 >> >>)
    IN  IF e.err # "" THEN e
        ELSE IF n = 0 \/ \E i \in 1..n : \E k \in 1..2 :
                            ordering[i][k] \notin DOMAIN P.hospital_dict
        THEN Raise(e, "KeyError")
        ELSE FoldSeq(step, e, [k \in 1..(n + 1) |-> k - 1])

sat_cpref(e, P) ==
    FoldSeq(LAMBDA acc, couple : sat_cpref_couple(acc, P, couple), e, P.couples)

\* each couple must be matched to one of their ranked pairs or (nil, nil)
sat_cpref_some(e, P) ==
    FoldSeq(LAMBDA acc, couple :
                IF acc.err # "" THEN acc
                ELSE append_clause(acc,
                        [k \in 1..(Len(couple.prefs) + 1) |->
                            acc.cpref[<<couple.uid, k - 1>>]]),
            e, P.couples)

\* the literal q[hospital][rank][number] that append_q_vars adds for the triple
\* (hospital, resident, number), if any: [err, l]
q_var_literal(e, q_var) ==
    LET hospital == q_var[1]
        resident == q_var[2]
        number   == q_var[3]
        rank     == get_rank(hospital.prefs, resident)
    IN  IF hospital.uid = NIL_HOSPITAL_UID THEN [err |-> "", l |-> <<>>]
        ELSE IF rank < 0 THEN [err |-> "ValueError", l |-> <<>>]
        ELSE IF ~(rank >= number) THEN [err |-> "", l |-> <<>>]
        ELSE IF <<hospital.uid, rank, number>> \notin DOMAIN e.q
        THEN [err |-> "KeyError", l |-> <<>>]
        ELSE [err |-> "", l |-> <<e.q[<<hospital.uid, rank, number>>]>>]

\* append_q_vars(l, q_vars): l extended by the counter literals of the
\* triples (hospital, resident uid, number), or the exception raised
append_q_vars(e, l, q_vars) ==
    FoldSeq(LAMBDA acc, q_var :
                IF acc.err # "" THEN acc
                ELSE LET r == q_var_literal(e, q_var)
                     IN  [err |-> r.err, l |-> acc.l \o r.l],
            [err |-> "", l |-> l], q_vars)

\* constraints.append(DIMACSClause(append_q_vars(l, q_vars)))
append_q_clause(e, l, q_vars) ==
    IF e.err # "" THEN e
    ELSE LET r == append_q_vars(e, l, q_vars)
         IN  IF r.err # "" THEN Raise(e, r.err) ELSE append_clause(e, r.l)

\* instability for singles, with no clause emitted
sat_stab_single_mutant(e, P) == e

\* instability for singles
sat_stab_single(e, P) ==
    FoldSeq(LAMBDA acc, single :
        FoldSeq(LAMBDA acc2, h_uid :
            IF acc2.err # "" THEN acc2
            ELSE LET h == P.hospital_dict[h_uid]
                 IN  append_q_clause(acc2,
                        MapSeq(LAMBDA uid : acc2.res_match[<<single.uid, uid>>],
                               get_all_weakly_preferred(single.prefs, h_uid)),
                        << <<h, single.uid, h.capacity>> >>),
            acc, single.prefs),
        e, P.singles)

\* one member of a couple switches: the two clauses of the pair of rank number
sat_one_switch_pair(e, P, couple, number) ==
    LET r0 == couple.residents[1]
        r1 == couple.residents[2]
        h0 == P.hospital_dict[couple.prefs[number + 1][1]]
        h1 == P.hospital_dict[couple.prefs[number + 1][2]]
        cp == e.cpref[<<couple.uid, number>>]
        l0 == << -e.res_match[<<r1, h1.uid>>], cp >>
        l1 == << -e.res_match[<<r0, h0.uid>>], cp >>
    IN  IF e.err # "" THEN e
        ELSE IF h0.uid # h1.uid
        THEN append_q_clause(
                append_q_clause(e, l0, << <<h0, r0, h0.capacity>> >>),
                l1, << <<h1, r1, h1.capacity>> >>)
        ELSE IF h0.uid = NIL_HOSPITAL_UID THEN Raise(e, "AttributeError")
        ELSE IF get_rank(h0.prefs, r0) < 0 \/ get_rank(h0.prefs, r1) < 0
        THEN Raise(e, "ValueError")
        ELSE IF get_rank(h0.prefs, r0) < get_rank(h0.prefs, r1)
        THEN append_q_clause(
                append_q_clause(e, l0, << <<h0, r0, h0.capacity>>,
                                          <<h1, r1, h1.capacity - 1>> >>),
                l1, << <<h1, r1, h1.capacity>> >>)
        ELSE append_q_clause(
                append_q_clause(e, l0, << <<h0, r0, h0.capacity>> >>),
                l1, << <<h0, r0, h0.capacity - 1>>,
                       <<h1, r1, h1.capacity>> >>)

sat_one_switch(e, P) ==
    FoldSeq(LAMBDA acc, couple :
        LET n  == Len(couple.prefs)
            a1 == FoldSeq(LAMBDA acc2, number :
                              sat_one_switch_pair(acc2, P, couple, number),
                          acc, [k \in 1..n |-> k - 1])
        IN  IF a1.err # "" THEN a1
            \* also consider switch to (nil, nil)
            ELSE append_clauses(a1,
                    << << -a1.res_match[<<couple.residents[1], NIL_HOSPITAL_UID>>],
                          a1.cpref[<<couple.uid, n>>] >>,
                       << -a1.res_match[<<couple.residents[2], NIL_HOSPITAL_UID>>],
                          a1.cpref[<<couple.uid, n>>] >> >>),
        e, P.couples)

\* both members of a couple switch: the clause of the pair of rank number
sat_both_switch_pair(e, P, couple, number) ==
    LET r0 == couple.residents[1]
        r1 == couple.residents[2]
        h0 == P.hospital_dict[couple.prefs[number + 1][1]]
        h1 == P.hospital_dict[couple.prefs[number + 1][2]]
        l  == << e.res_match[<<r0, h0.uid>>], e.res_match[<<r1, h1.uid>>],
                 e.cpref[<<couple.uid, number>>] >>
    IN  IF e.err # "" THEN e
        ELSE IF h0.capacity = 0 \/ h1.capacity = 0 THEN e
        ELSE IF h0.uid # h1.uid
        THEN append_q_clause(e, l, << <<h0, r0, h0.capacity>>,
                                      <<h1, r1, h1.capacity>> >>)
        ELSE IF h0.capacity = 1 THEN e
        ELSE append_q_clause(e, l,
                << <<h0, r0, h0.capacity>>, <<h1, r1, h1.capacity>>,
                   <<h0, r0, h0.capacity - 1>>, <<h1, r1, h1.capacity - 1>> >>)

sat_both_switch(e, P) ==
    FoldSeq(LAMBDA acc, couple :
        LET n  == Len(couple.prefs)
            a1 == FoldSeq(LAMBDA acc2, number :
                              sat_both_switch_pair(acc2, P, couple, number),
                          acc, [k \in 1..n |-> k - 1])
        IN  IF a1.err # "" THEN a1
            \* also, consider switch to (nil, nil)
            ELSE append_clause(a1,
                    << a1.res_match[<<couple.residents[1], NIL_HOSPITAL_UID>>],
                       a1.res_match[<<couple.residents[2], NIL_HOSPITAL_UID>>],
                       a1.cpref[<<couple.uid, n>>] >>),
        e, P.couples)

\* var_uid_allocator = UIDAllocator(first_uid=1); nothing emitted yet
EmptyEncoding ==
    [err |-> "", last_uid |-> 0, registry |-> <<>>, res_match |-> <<>>,
     q |-> <<>>, cpref |-> <<>>, clauses |-> <<>>]

\* solve_sat up to constraints.flush(): the CNF of the instance P
sat_encode(P, order) ==
    sat_both_switch(
     sat_one_switch(
      sat_stab_single(
       sat_cpref_some(
        sat_cpref(
         sat_q(
          sat_couple_amo(
           sat_single_amo(
            sat_couple_vars(
             sat_single_vars(EmptyEncoding, P), P), P), P, order), P), P), P),
       P), P), P)

(***************************************************************************)
(* solve_mip, the encoder.  Its state m: constraints (the rows of the      *)
(* ConstraintsCollection: name 'c<name>', kind "=" or "<=", terms, the     *)
(* constant side), binaries, last_uid (general_uidallocator, -1 for None)  *)
(* and err.                                                                *)
(***************************************************************************)
\* CoeffVar(coeff, var); coeff_none: no coefficient was given
CoeffVar(coeff, var) == [coeff |-> coeff, var |-> var, coeff_none |-> FALSE]
CoeffVarNoCoeff(var) == [coeff |-> 1, var |-> var, coeff_none |-> TRUE]

x_single(r_uid, h_uid) == <<"x", r_uid, h_uid>>
x_couple(c_uid, pair) == <<"x", c_uid, pair[1], pair[2]>>
alpha_var(r_uid, h_uid) == <<"alpha", r_uid, h_uid>>

\* Constraint.__init__ without a name ('c%d' % allocate_general_uid()) and
\* constraints.add_constraint
add_constraint(m, kind, terms, const_side) ==
    IF m.err # "" THEN m
    ELSE [m EXCEPT !.last_uid = @ + 1,
                   !.constraints = Append(@, [name |-> m.last_uid + 1,
                        kind |-> kind, terms |-> terms, const |-> const_side])]

\* expand_match_var(resident, h, coeff)
expand_match_var(resident, h, coeff) ==
    IF resident.couple = NoCouple
    THEN << CoeffVar(coeff, x_single(resident.uid, h.uid)) >>
    ELSE LET couple == resident.couple[1]
             k == IF couple.residents[1] = resident.uid THEN 1 ELSE 2
         IN  MapSeq(LAMBDA pair : CoeffVar(coeff, x_couple(couple.uid, pair)),
                    SelectSeq(couple.prefs, LAMBDA pair : pair[k] = h.uid))

\* the expanded variables, through h, of the residents that hospital hl
\* weakly prefers to uid
expand_weakly_preferred(P, hl, uid, h, coeff) ==
    FlatMap(LAMBDA r_prime : expand_match_var(P.resident_dict[r_prime], h, coeff),
            h_get_all_weakly_preferred(hl, uid))

\* hospital.get_all_weakly_preferred(uid) raises nothing and every resident
\* it returns is known
WeaklyPreferredOk(P, h, uid) ==
    \/ h.uid = NIL_HOSPITAL_UID
    \/ /\ IndexOf(h.prefs, uid) > 0
       /\ \A r \in Range(get_all_weakly_preferred(h.prefs, uid)) :
              r \in DOMAIN P.resident_dict

\* the terms coeff * x_c,pair over the pairs the couple weakly prefers to pair
couple_weakly_preferred_terms(couple, pair, coeff) ==
    MapSeq(LAMBDA h_prime_pair : CoeffVar(coeff, x_couple(couple.uid, h_prime_pair)),
           joint_get_all_weakly_preferred(couple.prefs, pair, {}))

\* matching constraints
mip_match(m, P) ==
    LET m1 == FoldSeq(LAMBDA acc, resident :
                LET opts == resident.prefs \o <<NIL_HOSPITAL_UID>>
                    a == add_constraint(acc, "=",
                            MapSeq(LAMBDA h_uid :
                                CoeffVarNoCoeff(x_single(resident.uid, h_uid)), opts), 1)
                IN  [a EXCEPT !.binaries = @ \o
                        MapSeq(LAMBDA h_uid : x_single(resident.uid, h_uid), opts)],
                m, P.singles)
    IN  FoldSeq(LAMBDA acc, couple :
                LET opts == couple.prefs \o << <<NIL_HOSPITAL_UID, NIL_HOSPITAL_UID>> >>
                    a == add_constraint(acc, "=",
                            MapSeq(LAMBDA pair :
                                CoeffVarNoCoeff(x_couple(couple.uid, pair)), opts), 1)
                IN  [a EXCEPT !.binaries = @ \o
                        MapSeq(LAMBDA pair : x_couple(couple.uid, pair), opts)],
                m1, P.couples)

\* capacity constraints that allow one resident more
mip_capacity_mutant(m, P) ==
    FoldSeq(LAMBDA acc, h :
        IF acc.err # "" \/ Len(h.prefs) = 0 THEN acc
        ELSE IF \E i \in 1..Len(h.prefs) : h.prefs[i] \notin DOMAIN P.resident_dict
        THEN Raise(acc, "KeyError")
        ELSE add_constraint(acc, "<=",
                FlatMap(LAMBDA resident_uid :
                            expand_match_var(P.resident_dict[resident_uid], h, 1),
                        h.prefs),
                h.capacity + 1),
        m, P.hospitals)

\* capacity constraints
mip_capacity(m, P) ==
    FoldSeq(LAMBDA acc, h :
        IF acc.err # "" \/ Len(h.prefs) = 0 THEN acc
        ELSE IF \E i \in 1..Len(h.prefs) : h.prefs[i] \notin DOMAIN P.resident_dict
        THEN Raise(acc, "KeyError")
        ELSE add_constraint(acc, "<=",
                FlatMap(LAMBDA resident_uid :
                            expand_match_var(P.resident_dict[resident_uid], h, 1),
                        h.prefs),
                h.capacity),
        m, P.hospitals)

\* stability constraints, singles, with the right side 0 in place of
\* -capacity: the rows no longer force anything
mip_stab_single_mutant(m, P) ==
    FoldSeq(LAMBDA acc, r :
        FoldSeq(LAMBDA acc2, h_uid :
            LET h == P.hospital_dict[h_uid]
            IN  add_constraint(acc2, "<=",
                    expand_weakly_preferred(P, h, r.uid, h, -1)
                    \o MapSeq(LAMBDA p_prime_uid :
                                CoeffVar(-h.capacity, x_single(r.uid, p_prime_uid)),
                              get_all_weakly_preferred(r.prefs, h.uid)),
                    0),
            acc, r.prefs),
        m, P.singles)

\* stability constraints, singles
mip_stab_single(m, P) ==
    FoldSeq(LAMBDA acc, r :
        FoldSeq(LAMBDA acc2, h_uid :
            IF acc2.err # "" THEN acc2
            ELSE IF h_uid \notin DOMAIN P.hospital_dict THEN Raise(acc2, "KeyError")
            ELSE LET h == P.hospital_dict[h_uid]
                 IN  IF ~WeaklyPreferredOk(P, h, r.uid) THEN Raise(acc2, "Exception")
                     ELSE add_constraint(acc2, "<=",
                            expand_weakly_preferred(P, h, r.uid, h, -1)
                            \o MapSeq(LAMBDA p_prime_uid :
                                        CoeffVar(-h.capacity, x_single(r.uid, p_prime_uid)),
                                      get_all_weakly_preferred(r.prefs, h.uid)),
                            -h.capacity),
            acc, r.prefs),
        m, P.singles)

\* one member of a couple: the two rows of the pair of rank number
mip_one_switch_pair(m, P, couple, number) ==
    LET r0 == couple_member(couple, 0)
        r1 == couple_member(couple, 1)
        h0 == P.hospital_dict[couple.prefs[number + 1][1]]
        h1 == P.hospital_dict[couple.prefs[number + 1][2]]
        pair == <<h0.uid, h1.uid>>
        row0(var_side) == couple_weakly_preferred_terms(couple, pair, -h0.capacity)
                          \o var_side \o expand_match_var(r1, h1, h0.capacity)
        row1(var_side) == couple_weakly_preferred_terms(couple, pair, -h1.capacity)
                          \o var_side \o expand_match_var(r0, h0, h1.capacity)
        two(vs0, vs1) == add_constraint(add_constraint(m, "<=", row0(vs0), 0),
                                        "<=", row1(vs1), 0)
    IN  IF m.err # "" THEN m
        ELSE IF \E k \in 1..2 : couple.prefs[number + 1][k] \notin DOMAIN P.hospital_dict
        THEN Raise(m, "KeyError")
        ELSE IF h0.uid # h1.uid
        THEN IF ~WeaklyPreferredOk(P, h0, r0.uid) \/ ~WeaklyPreferredOk(P, h1, r1.uid)
             THEN Raise(m, "Exception")
             ELSE two(expand_weakly_preferred(P, h0, r0.uid, h0, -1),
                      expand_weakly_preferred(P, h1, r1.uid, h1, -1))
        ELSE IF h0.uid = NIL_HOSPITAL_UID THEN Raise(m, "AttributeError")
        ELSE IF get_rank(h0.prefs, r0.uid) < 0 \/ get_rank(h0.prefs, r1.uid) < 0
        THEN Raise(m, "ValueError")
        ELSE IF ~WeaklyPreferredOk(P, h0, r0.uid) \/ ~WeaklyPreferredOk(P, h1, r1.uid)
        THEN Raise(m, "KeyError")
        ELSE IF get_rank(h0.prefs, r0.uid) < get_rank(h0.prefs, r1.uid)
        \* r0 preferred to r1: one var_side, of h1 and r1, in both rows
        THEN two(expand_weakly_preferred(P, h1, r1.uid, h1, -1),
                 expand_weakly_preferred(P, h1, r1.uid, h1, -1))
        \* one var_side, of h0 and r0, in both rows
        ELSE two(expand_weakly_preferred(P, h0, r0.uid, h0, -1),
                 expand_weakly_preferred(P, h0, r0.uid, h0, -1))

mip_one_switch(m, P) ==
    FoldSeq(LAMBDA acc, couple :
        LET n  == Len(couple.prefs)
            r0 == couple_member(couple, 0)
            r1 == couple_member(couple, 1)
            a1 == FoldSeq(LAMBDA acc2, number :
                              mip_one_switch_pair(acc2, P, couple, number),
                          acc, [k \in 1..n |-> k - 1])
            all == MapSeq(LAMBDA pair : CoeffVar(-1, x_couple(couple.uid, pair)),
                          couple.prefs \o << <<NIL_HOSPITAL_UID, NIL_HOSPITAL_UID>> >>)
        IN  \* also consider switch to (nil, nil)
            add_constraint(
                add_constraint(a1, "<=",
                    all \o expand_match_var(r1, NIL_HOSPITAL, 1), 0),
                "<=", all \o expand_match_var(r0, NIL_HOSPITAL, 1), 0),
        m, P.couples)

\* the alpha variables with rows that let alpha be 1 one resident short of
\* the capacity
mip_alphas_mutant(m, P, couple) ==
    LET r0 == couple_member(couple, 0)
        r1 == couple_member(couple, 1)
        step(acc, pair) ==
            LET h0 == P.hospital_dict[pair[1]]
                h1 == P.hospital_dict[pair[2]]
                a  == acc[1]
                generated_alphas == acc[2]
            IN  IF a.err # "" THEN acc
                ELSE IF \/ h0.capacity <= 1 \/ pair[1] = NIL_HOSPITAL_UID
                        \/ h1.capacity <= 1 \/ pair[2] = NIL_HOSPITAL_UID
                        \/ <<r1.uid, pair[2]>> \in generated_alphas
                        \/ <<r0.uid, pair[1]>> \in generated_alphas
                THEN acc
                ELSE IF ~WeaklyPreferredOk(P, h1, r1.uid)
                THEN << Raise(a, "Exception"), generated_alphas >>
                ELSE << add_constraint(
                            [a EXCEPT !.binaries = Append(@, alpha_var(r1.uid, pair[2]))],
                            "<=",
                            expand_weakly_preferred(P, h1, r1.uid, h1, -1)
                            \o << CoeffVar(h1.capacity - 1, alpha_var(r1.uid, h1.uid)) >>,
                            0),
                        generated_alphas \cup { <<r1.uid, pair[2]>> } >>
    IN  FoldSeq(step, << m, {} >>, couple.prefs)[1]

\* both members of a couple switch: the alpha variables and their rows
mip_alphas(m, P, couple) ==
    LET r0 == couple_member(couple, 0)
        r1 == couple_member(couple, 1)
        step(acc, pair) ==
            LET h0 == P.hospital_dict[pair[1]]
                h1 == P.hospital_dict[pair[2]]
                a  == acc[1]
                generated_alphas == acc[2]
            IN  IF a.err # "" THEN acc
                ELSE IF \/ h0.capacity <= 1 \/ pair[1] = NIL_HOSPITAL_UID
                        \/ h1.capacity <= 1 \/ pair[2] = NIL_HOSPITAL_UID
                        \/ <<r1.uid, pair[2]>> \in generated_alphas
                        \/ <<r0.uid, pair[1]>> \in generated_alphas
                THEN acc
                ELSE IF ~WeaklyPreferredOk(P, h1, r1.uid)
                THEN << Raise(a, "Exception"), generated_alphas >>
                ELSE << add_constraint(
                            [a EXCEPT !.binaries = Append(@, alpha_var(r1.uid, pair[2]))],
                            "<=",
                            expand_weakly_preferred(P, h1, r1.uid, h1, -1)
                            \o << CoeffVar(h1.capacity, alpha_var(r1.uid, h1.uid)) >>,
                            0),
                        generated_alphas \cup { <<r1.uid, pair[2]>> } >>
    IN  FoldSeq(step, << m, {} >>, couple.prefs)[1]

\* the row of the pair of rank number, with case enumerations that leave
\* out the hospitals of capacity 2
mip_both_switch_pair_mutant(m, P, couple, number) ==
    LET r0 == couple_member(couple, 0)
        r1 == couple_member(couple, 1)
        h0 == P.hospital_dict[couple.prefs[number + 1][1]]
        h1 == P.hospital_dict[couple.prefs[number + 1][2]]
        pair == <<h0.uid, h1.uid>>
        head(cap) == expand_match_var(r0, h0, -cap) \o expand_match_var(r1, h1, -cap)
                     \o couple_weakly_preferred_terms(couple, pair, -cap)
    IN  IF m.err # "" THEN m
        ELSE IF h0.capacity = 0 \/ h1.capacity = 0 THEN m
        ELSE IF h0.uid # h1.uid
        THEN IF ~WeaklyPreferredOk(P, h0, r0.uid) \/ ~WeaklyPreferredOk(P, h1, r1.uid)
             THEN Raise(m, "Exception")
             ELSE IF /\ h1.uid # NIL_HOSPITAL_UID /\ h1.capacity > 2
                     /\ h0.uid # NIL_HOSPITAL_UID /\ h0.capacity > 2
             THEN add_constraint(m, "<=",
                    head(h0.capacity)
                    \o expand_weakly_preferred(P, h0, r0.uid, h0, -1)
                    \o << CoeffVar(-h0.capacity, alpha_var(r1.uid, h1.uid)) >>,
                    -h0.capacity)
             ELSE IF h1.uid = NIL_HOSPITAL_UID \/ h1.capacity = 1
             THEN add_constraint(m, "<=",
                    head(h0.capacity)
                    \o expand_weakly_preferred(P, h0, r0.uid, h0, -1)
                    \o expand_weakly_preferred(P, h1, r1.uid, h1, -h0.capacity),
                    -h0.capacity)
             ELSE IF h0.uid = NIL_HOSPITAL_UID \/ h0.capacity = 1
             THEN add_constraint(m, "<=",
                    head(h1.capacity)
                    \o expand_weakly_preferred(P, h1, r1.uid, h1, -1)
                    \o expand_weakly_preferred(P, h0, r0.uid, h0, -h1.capacity),
                    -h1.capacity)
             ELSE Raise(m, "should never get here")
        ELSE IF h0.capacity = 1 THEN m
        ELSE IF h0.uid = NIL_HOSPITAL_UID THEN Raise(m, "AttributeError")
        ELSE IF get_rank(h0.prefs, r0.uid) < 0 \/ get_rank(h0.prefs, r1.uid) < 0
        THEN Raise(m, "ValueError")
        ELSE IF ~WeaklyPreferredOk(P, h1, r0.uid) \/ ~WeaklyPreferredOk(P, h1, r1.uid)
        THEN Raise(m, "KeyError")
        ELSE add_constraint(m, "<=",
                head(h0.capacity)
                \o (IF get_rank(h0.prefs, r0.uid) < get_rank(h0.prefs, r1.uid)
                    THEN expand_weakly_preferred(P, h1, r1.uid, h1, -1)
                    \* h1's residents weakly preferred to r0, expanded through h0
                    ELSE expand_weakly_preferred(P, h1, r0.uid, h0, -1)),
                -h0.capacity + 1)

\* both members of a couple switch: the row of the pair of rank number
mip_both_switch_pair(m, P, couple, number) ==
    LET r0 == couple_member(couple, 0)
        r1 == couple_member(couple, 1)
        h0 == P.hospital_dict[couple.prefs[number + 1][1]]
        h1 == P.hospital_dict[couple.prefs[number + 1][2]]
        pair == <<h0.uid, h1.uid>>
        head(cap) == expand_match_var(r0, h0, -cap) \o expand_match_var(r1, h1, -cap)
                     \o couple_weakly_preferred_terms(couple, pair, -cap)
    IN  IF m.err # "" THEN m
        ELSE IF h0.capacity = 0 \/ h1.capacity = 0 THEN m
        ELSE IF h0.uid # h1.uid
        THEN IF ~WeaklyPreferredOk(P, h0, r0.uid) \/ ~WeaklyPreferredOk(P, h1, r1.uid)
             THEN Raise(m, "Exception")
             ELSE IF /\ h1.uid # NIL_HOSPITAL_UID /\ h1.capacity > 1
                     /\ h0.uid # NIL_HOSPITAL_UID /\ h0.capacity > 1
             THEN add_constraint(m, "<=",
                    head(h0.capacity)
                    \o expand_weakly_preferred(P, h0, r0.uid, h0, -1)
                    \o << CoeffVar(-h0.capacity, alpha_var(r1.uid, h1.uid)) >>,
                    -h0.capacity)
             ELSE IF h1.uid = NIL_HOSPITAL_UID \/ h1.capacity = 1
             THEN add_constraint(m, "<=",
                    head(h0.capacity)
                    \o expand_weakly_preferred(P, h0, r0.uid, h0, -1)
                    \o expand_weakly_preferred(P, h1, r1.uid, h1, -h0.capacity),
                    -h0.capacity)
             ELSE IF h0.uid = NIL_HOSPITAL_UID \/ h0.capacity = 1
             THEN add_constraint(m, "<=",
                    head(h1.capacity)
                    \o expand_weakly_preferred(P, h1, r1.uid, h1, -1)
                    \o expand_weakly_preferred(P, h0, r0.uid, h0, -h1.capacity),
                    -h1.capacity)
             ELSE Raise(m, "should never get here")
        ELSE IF h0.capacity = 1 THEN m
        ELSE IF h0.uid = NIL_HOSPITAL_UID THEN Raise(m, "AttributeError")
        ELSE IF get_rank(h0.prefs, r0.uid) < 0 \/ get_rank(h0.prefs, r1.uid) < 0
        THEN Raise(m, "ValueError")
        ELSE IF ~WeaklyPreferredOk(P, h1, r0.uid) \/ ~WeaklyPreferredOk(P, h1, r1.uid)
        THEN Raise(m, "KeyError")
        ELSE add_constraint(m, "<=",
                head(h0.capacity)
                \o (IF get_rank(h0.prefs, r0.uid) < get_rank(h0.prefs, r1.uid)
                    THEN expand_weakly_preferred(P, h1, r1.uid, h1, -1)
                    \* h1's residents weakly preferred to r0, expanded through h0
                    ELSE expand_weakly_preferred(P, h1, r0.uid, h0, -1)),
                -h0.capacity + 1)

mip_both_switch(m, P) ==
    FoldSeq(LAMBDA acc, couple :
                FoldSeq(LAMBDA acc2, number :
                            mip_both_switch_pair(acc2, P, couple, number),
                        mip_alphas(acc, P, couple),
                        [k \in 1..Len(couple.prefs) |-> k - 1]),
            m, P.couples)

\* constraints = cplex_py.ConstraintsCollection(), which resets the
\* process-wide allocator of constraint names; binaries = []
EmptyProgram == [err |-> "", last_uid |-> -1, constraints |-> <<>>, binaries |-> <<>>]

\* solve_mip up to the verify / solve branch: the rows of the instance P
mip_rows(m, P) ==
    mip_both_switch(mip_one_switch(mip_stab_single(mip_capacity(
        mip_match(m, P), P), P), P), P)

mip_encode(P) == mip_rows(EmptyProgram, P)

\* ConstraintsCollection.__init__ without the reset: the allocator goes on
\* from last_uid
ConstraintsCollection_mutant(last_uid) == [EmptyProgram EXCEPT !.last_uid = last_uid]

\* ConstraintsCollection.__init__: no constraints, and
\* general_uidallocator.last_uid = None whatever it was
ConstraintsCollection(last_uid) == EmptyProgram

(***************************************************************************)
(* The external solvers.  A SAT model is the sequence of the truth values  *)
(* of the variables 1..last_uid; an LP solution maps the binaries to 0/1.  *)
(***************************************************************************)
Abs(n) == IF n < 0 THEN -n ELSE n

lit_true(a, l) == IF l > 0 THEN a[l] ELSE ~a[-l]

clause_true(a, clause) == \E k \in 1..Len(clause) : lit_true(a, clause[k])

MaxOf(S) == CHOOSE x \in S : \A y \in S : y <= x

\* by variable v, the clauses whose greatest variable is v: they are decided
\* once v has a value
clauses_by_var(clauses, n) ==
    LET top == [i \in 1..Len(clauses) |->
                   MaxOf({Abs(clauses[i][k]) : k \in 1..Len(clauses[i])})] \o <<>>
    IN  [v \in 1..n |-> {i \in 1..Len(clauses) : top[i] = v}] \o <<>>

RECURSIVE extend_model(_, _, _, _)
extend_model(clauses, byvar, n, a) ==
    IF Len(a) = n THEN {a}
    ELSE UNION { LET a2 == Append(a, b)
                 IN  IF \A i \in byvar[Len(a2)] : clause_true(a2, clauses[i])
                     THEN extend_model(clauses, byvar, n, a2)
                     ELSE {} : b \in BOOLEAN }

\* the satisfying assignments of the CNF 'p cnf last_uid len(clauses)'
sat_models(e) ==
    extend_model(e.clauses, clauses_by_var(e.clauses, e.last_uid), e.last_uid, <<>>)

\* the distinct names of a list, in the order of the first occurrences
Distinct(l) ==
    FoldSeq(LAMBDA acc, x : IF x \in Range(acc) THEN acc ELSE Append(acc, x),
            <<>>, l)

lp_variables(m) == Distinct(m.binaries)

\* a row with its variables replaced by their positions in vars
row_by_position(row, vars) ==
    [kind |-> row.kind, const |-> row.const,
     terms |-> [j \in 1..Len(row.terms) |->
                  [coeff |-> row.terms[j].coeff,
                   at |-> IndexOf(vars, row.terms[j].var)]] \o <<>>]

\* the left side of a row under the values val (by position)
row_total(row, val) ==
    FoldSeq(LAMBDA acc, t : acc + t.coeff * val[t.at], 0, row.terms)

row_holds(row, val) ==
    IF row.kind = "=" THEN row_total(row, val) = row.const
    ELSE row_total(row, val) <= row.const

\* by variable k, the rows whose last variable is the k-th
rows_by_var(rows, n) ==
    LET top == [i \in 1..Len(rows) |->
                   MaxOf({rows[i].terms[j].at : j \in 1..Len(rows[i].terms)})] \o <<>>
    IN  [k \in 1..n |-> {i \in 1..Len(rows) : top[i] = k}] \o <<>>

RECURSIVE extend_solution(_, _, _, _)
extend_solution(rows, byvar, n, val) ==
    IF Len(val) = n THEN {val}
    ELSE UNION { LET v2 == Append(val, b)
                 IN  IF \A i \in byvar[Len(v2)] : row_holds(rows[i], v2)
                     THEN extend_solution(rows, byvar, n, v2)
                     ELSE {} : b \in {0, 1} }

\* the 0/1 solutions of the rows, as the sets of the variables at 1
mip_solutions(m) ==
    LET vars == lp_variables(m)
        rows == [i \in 1..Len(m.constraints) |->
                    row_by_position(m.constraints[i], vars)] \o <<>>
    IN  { {vars[k] : k \in {k \in 1..Len(vars) : val[k] = 1}} :
            val \in extend_solution(rows, rows_by_var(rows, Len(vars)),
                                    Len(vars), <<>>) }

\* the objective is the first binary, maximized: the solutions the solver
\* may display
mip_optima(m) ==
    LET sols == mip_solutions(m)
        best == {s \in sols : m.binaries[1] \in s}
    IN  IF best # {} THEN best ELSE sols

(***************************************************************************)
(* The decoders.  A matching is a function from resident uids to hospital  *)
(* uids (a dictionary).                                                    *)
(***************************************************************************)
\* solve_sat, the 'v' line of variable values in the order of the ids
sat_decode(e, P, model) ==
    LET m1 == FoldSeq(LAMBDA acc, id :
                    LET var_name == e.registry[id]
                    IN  IF ~model[id] THEN acc
                        ELSE IF var_name[1] = "xr"
                        THEN (var_name[2] :> var_name[3]) @@ acc
                        ELSE IF var_name[1] = "xc"
                        THEN (var_name[3] :> var_name[4]) @@ acc
                        ELSE acc,
                  <<>>, [i \in 1..e.last_uid |-> i])
    IN  FoldSeq(LAMBDA acc, single :
                    IF single.uid \in DOMAIN acc THEN acc
                    ELSE (single.uid :> NIL_HOSPITAL_UID) @@ acc,
                m1, P.singles)

\* solve_mip, over the variables whose value is 1
mip_decode(P, vals) ==
    LET one(var) ==
            IF var[1] # "x" THEN <<>>
            ELSE IF Len(var) = 4
            THEN LET couple == P.couple_dict[var[2]]
                 IN  (IF var[3] # NIL_HOSPITAL_UID
                      THEN (couple.residents[1] :> var[3]) ELSE <<>>)
                     @@ (IF var[4] # NIL_HOSPITAL_UID
                         THEN (couple.residents[2] :> var[4]) ELSE <<>>)
            ELSE IF var[3] # NIL_HOSPITAL_UID THEN (var[2] :> var[3])
            ELSE <<>>
        RECURSIVE all(_)
        all(S) == IF S = {} THEN <<>>
                  ELSE LET v == CHOOSE v \in S : TRUE IN one(v) @@ all(S \ {v})
    IN  all(vals)

\* print_matching with the header 'm 1' whatever the matching
print_matching_mutant(matching) ==
    [m |-> 1,
     lines |-> { <<r, IF matching[r] = NIL_HOSPITAL_UID
                      THEN NIL_HOSPITAL_SYMBOL ELSE matching[r]>> :
                 r \in DOMAIN matching }]

\* print_matching: the header flag ('m 0' or 'm 1') and the lines
\* 'r <uid> <hospital or -1>', by resident
print_matching(matching) ==
    IF DOMAIN matching = {} THEN [m |-> 0, lines |-> {}]
    ELSE [m |-> 1,
          lines |-> { <<r, IF matching[r] = NIL_HOSPITAL_UID
                           THEN NIL_HOSPITAL_SYMBOL ELSE matching[r]>> :
                      r \in DOMAIN matching }]

(***************************************************************************)
(* The verify mode.  A matching file is the sequence of its 'r' lines,     *)
(* each <<resident uid, hospital token>>.  The result is the exception     *)
(* that ended the evaluation ("" for none) and the printed constraints, by *)
(* their index.                                                            *)
(***************************************************************************)
\* solve_sat, one 'r' line; V: err, value_dict (the ids set to True),
\* h_hash (hospital uids), r_match_dict (resident uid -> hospital uid)
sat_verify_line(V, e, P, line) ==
    IF V.err # "" THEN V
    ELSE IF line[2] \notin DOMAIN P.hospital_dict THEN [V EXCEPT !.err = "KeyError"]
    ELSE IF line[1] \notin DOMAIN P.resident_dict THEN [V EXCEPT !.err = "KeyError"]
    ELSE LET h == P.hospital_dict[line[2]]
             r == P.resident_dict[line[1]]
         IN  IF <<r.uid, h.uid>> \notin DOMAIN e.res_match
             THEN [V EXCEPT !.err = "KeyError"]
             ELSE LET V1 == [V EXCEPT
                              !.value_dict = @ \cup {e.res_match[<<r.uid, h.uid>>]},
                              !.r_match_dict = (r.uid :> h.uid) @@ @]
                  IN  IF h.uid = NIL_HOSPITAL_UID THEN V1
                      ELSE IF h.uid \in V1.h_hash
                      THEN [V1 EXCEPT !.err = "AssertionError"]
                      ELSE LET ordering == h.prefs
                               pos == IndexOf(ordering, r.uid)
                               qj(i) == IF pos # 0 /\ i >= pos THEN 1 ELSE 0
                           IN  IF \E i \in 1..Len(ordering) :
                                      <<h.uid, i, qj(i)>> \notin DOMAIN e.q
                               THEN [V1 EXCEPT !.err = "KeyError"]
                               ELSE [V1 EXCEPT
                                      !.h_hash = @ \cup {h.uid},
                                      !.value_dict = @ \cup
                                          {e.q[<<h.uid, i, qj(i)>>] : i \in 1..Len(ordering)}]

\* the hospitals no line names: q[h][i][0] for every i
sat_verify_hospitals(V, e, P) ==
    FoldSeq(LAMBDA acc, h :
        IF acc.err # "" \/ h.uid \in acc.h_hash THEN acc
        ELSE IF \E i \in 1..Len(h.prefs) : <<h.uid, i, 0>> \notin DOMAIN e.q
        THEN [acc EXCEPT !.err = "KeyError"]
        ELSE [acc EXCEPT !.value_dict = @ \cup
                            {e.q[<<h.uid, i, 0>>] : i \in 1..Len(h.prefs)}],
        V, P.hospitals)

\* the couples: the members no line names are unmatched; cpref from the
\* first pair of the list that is the couple's pair
sat_verify_couples(V, e, P) ==
    FoldSeq(LAMBDA acc, couple :
        IF acc.err # "" THEN acc
        ELSE LET ordering == couple.prefs
                 r0 == couple.residents[1]
                 r1 == couple.residents[2]
                 m0 == IF r0 \in DOMAIN acc.r_match_dict THEN <<>>
                       ELSE (r0 :> NIL_HOSPITAL_UID)
                 m1 == IF r1 \in DOMAIN acc.r_match_dict THEN <<>>
                       ELSE (r1 :> NIL_HOSPITAL_UID)
                 rm == m0 @@ m1 @@ acc.r_match_dict
                 needed == {<<r, NIL_HOSPITAL_UID>> : r \in DOMAIN m0 \cup DOMAIN m1}
                 first == IndexOf(ordering, <<rm[r0], rm[r1]>>)
             IN  IF \/ \E k \in needed : k \notin DOMAIN e.res_match
                    \/ \E n \in 1..Len(ordering) :
                          \/ ordering[n][1] \notin DOMAIN P.hospital_dict
                          \/ ordering[n][2] \notin DOMAIN P.hospital_dict
                    \/ \E n \in 0..Len(ordering) : <<couple.uid, n>> \notin DOMAIN e.cpref
                 THEN [acc EXCEPT !.err = "KeyError"]
                 ELSE [acc EXCEPT
                        !.r_match_dict = rm,
                        !.value_dict = @ \cup {e.res_match[k] : k \in needed}
                            \cup {e.cpref[<<couple.uid, n>>] :
                                    n \in {n \in 0..Len(ordering) :
                                             \/ n = Len(ordering)
                                             \/ first # 0 /\ n >= first - 1}}],
        V, P.couples)

\* eval_str_clause over the line 'l1 l2 ... 0'
eval_str_clause(value_dict, clause) ==
    \E k \in 1..Len(clause) :
        \/ clause[k] > 0 /\ clause[k] \in value_dict
        \/ clause[k] < 0 /\ -clause[k] \notin value_dict

\* solve_sat with verify_file: the clauses printed as failing
sat_verify(e, P, verify_file) ==
    LET V0 == [err |-> "", value_dict |-> {}, h_hash |-> {}, r_match_dict |-> <<>>]
        V1 == FoldSeq(LAMBDA V, line : sat_verify_line(V, e, P, line), V0, verify_file)
        V3 == sat_verify_couples(sat_verify_hospitals(V1, e, P), e, P)
    IN  IF V3.err # "" THEN [err |-> V3.err, printed |-> {}]
        ELSE [err |-> "",
              printed |-> {i \in 1..Len(e.clauses) :
                              ~eval_str_clause(V3.value_dict, e.clauses[i])}]

\* solve_mip, the 'r' lines: r_match_dict
mip_verify_lines(P, verify_file) ==
    FoldSeq(LAMBDA V, line :
        IF V.err # "" THEN V
        ELSE IF line[2] # NIL_HOSPITAL_SYMBOL /\ line[2] \notin DOMAIN P.hospital_dict
        THEN [V EXCEPT !.err = "KeyError"]
        ELSE IF line[1] \notin DOMAIN P.resident_dict
        THEN [V EXCEPT !.err = "KeyError"]
        ELSE [V EXCEPT !.r_match_dict =
                (line[1] :> (IF line[2] = NIL_HOSPITAL_SYMBOL THEN NIL_HOSPITAL_UID
                             ELSE P.hospital_dict[line[2]].uid)) @@ @],
        [err |-> "", r_match_dict |-> <<>>, c_match_dict |-> <<>>], verify_file)

\* c_match_dict[couple] = (r_match_dict[r0], r_match_dict[r1])
mip_verify_couples(V, P) ==
    FoldSeq(LAMBDA acc, couple :
        IF acc.err # "" THEN acc
        ELSE IF \/ couple.residents[1] \notin DOMAIN acc.r_match_dict
                \/ couple.residents[2] \notin DOMAIN acc.r_match_dict
        THEN [acc EXCEPT !.err = "KeyError"]
        ELSE [acc EXCEPT !.c_match_dict =
                (couple.uid :> <<acc.r_match_dict[couple.residents[1]],
                                 acc.r_match_dict[couple.residents[2]]>>) @@ @],
        V, P.couples)

\* eval_cplex_constraint: the terms in order; an alpha term ends the
\* evaluation with True
eval_cplex_constraint(V, P, row) ==
    LET T == FoldSeq(LAMBDA acc, t :
                IF acc.err # "" \/ acc.returned THEN acc
                ELSE IF t.var[1] = "alpha" THEN [acc EXCEPT !.returned = TRUE]
                ELSE IF Len(t.var) = 4
                THEN IF \/ t.var[2] \notin DOMAIN P.couple_dict
                        \/ t.var[2] \notin DOMAIN V.c_match_dict
                        \/ t.var[3] \notin DOMAIN P.hospital_dict
                        \/ t.var[4] \notin DOMAIN P.hospital_dict
                     THEN [acc EXCEPT !.err = "KeyError"]
                     ELSE [acc EXCEPT !.total = @ +
                            (IF V.c_match_dict[t.var[2]] = <<t.var[3], t.var[4]>>
                             THEN t.coeff ELSE 0)]
                ELSE IF \/ t.var[2] \notin DOMAIN P.resident_dict
                        \/ t.var[2] \notin DOMAIN V.r_match_dict
                        \/ t.var[3] \notin DOMAIN P.hospital_dict
                     THEN [acc EXCEPT !.err = "KeyError"]
                     ELSE [acc EXCEPT !.total = @ +
                            (IF V.r_match_dict[t.var[2]] = t.var[3]
                             THEN t.coeff ELSE 0)],
                [err |-> "", returned |-> FALSE, total |-> 0], row.terms)
    IN  [err |-> T.err,
         ok  |-> \/ T.returned
                 \/ IF row.kind = "=" THEN T.total = row.const
                    ELSE T.total <= row.const]

\* solve_mip with verify_file: the rows printed as failing
mip_verify(m, P, verify_file) ==
    LET V == mip_verify_couples(mip_verify_lines(P, verify_file), P)
        ev(i) == eval_cplex_constraint(V, P, m.constraints[i])
        rows == 1..Len(m.constraints)
    IN  IF V.err # "" THEN [err |-> V.err, printed |-> {}]
        ELSE IF \E i \in rows : ev(i).err # "" THEN [err |-> "KeyError", printed |-> {}]
        ELSE [err |-> "", printed |-> {i \in rows : ~ev(i).ok}]

(***************************************************************************)
(* The inputs: problem files over two hospitals, up to three singles and   *)
(* one couple, with mutually consistent lists (a hospital ranks exactly    *)
(* the residents who rank it), and matching files for the verify mode.     *)
(***************************************************************************)
MaxCap == 2
MaxRuns == 2

HospitalUids == {1, 2}
SingleUids == {11, 12}
CoupleResidents == <<21, 22>>

RECURSIVE Ascending(_)
Ascending(S) ==
    IF S = {} THEN <<>>
    ELSE LET lo == CHOOSE x \in S : \A y \in S : x <= y
         IN  <<lo>> \o Ascending(S \ {lo})

\* the iteration orders of a set of hospital uids the model lets the
\* interpreter have: by the uid, and the reverse
SetOrders ==
    { Ascending(HospitalUids \cup {NIL_HOSPITAL_UID}),
      Reverse(Ascending(HospitalUids \cup {NIL_HOSPITAL_UID})) }

\* only the 'c' lines build sets
SetOrdersOf(file) ==
    IF \E i \in 1..Len(file) : file[i].kind = "c" THEN SetOrders
    ELSE {Ascending(HospitalUids \cup {NIL_HOSPITAL_UID})}

file_token(h) == IF h = NIL_HOSPITAL_UID THEN NIL_HOSPITAL_SYMBOL ELSE h

\* the residents who rank h: S maps the singles to their lists, C is <<>>
\* or <<the pairs of the couple>>
Applicants(S, C, h) ==
    {r \in DOMAIN S : h \in Range(S[r])}
    \cup (IF C # <<>> /\ \E i \in 1..Len(C[1]) : C[1][i][1] = h
          THEN {CoupleResidents[1]} ELSE {})
    \cup (IF C # <<>> /\ \E i \in 1..Len(C[1]) : C[1][i][2] = h
          THEN {CoupleResidents[2]} ELSE {})

\* the file: the 'r' lines, the 'c' line, the 'p' lines; a hospital ranks
\* its applicants by the uid, upwards or (down[h]) downwards
ProblemFile(S, C, cap, down) ==
    MapSeq(LAMBDA r : RLine(r, S[r]), Ascending(DOMAIN S))
    \o (IF C = <<>> THEN <<>>
        ELSE << CLine(50, CoupleResidents[1], CoupleResidents[2],
                      MapSeq(LAMBDA pr : <<file_token(pr[1]), file_token(pr[2])>>,
                             C[1])) >>)
    \o MapSeq(LAMBDA h : PLine(h, cap[h],
                 IF down[h] THEN Reverse(Ascending(Applicants(S, C, h)))
                 ELSE Ascending(Applicants(S, C, h))),
              Ascending(HospitalUids))

SingleLists == SeqsNoDup(HospitalUids, 1, Cardinality(HospitalUids))

\* the instances of singles only
SinglesFiles ==
    { ProblemFile(S, <<>>, cap, down) :
        S \in [SingleUids -> SingleLists],
        cap \in [HospitalUids -> 0..MaxCap],
        down \in [HospitalUids -> BOOLEAN] }

\* the joint lists of the couple: pairs of two hospitals, pairs in one
\* hospital, pairs with a nil component
CoupleLists ==
    { << <<1, 2>> >>,
      << <<1, 1>> >>,
      << <<1, 2>>, <<2, 1>> >>,
      << <<1, 1>>, <<2, 2>> >>,
      << <<2, 2>>, <<1, 2>> >>,
      << <<1, NIL_HOSPITAL_UID>> >>,
      << <<NIL_HOSPITAL_UID, 1>>, <<1, 2>> >>,
      << <<1, 2>>, <<1, NIL_HOSPITAL_UID>> >> }

\* the instances of one couple, alone or beside one single
CoupleFiles ==
    { ProblemFile(S, <<C>>, cap, down) :
        S \in {<<>>} \cup [{11} -> SingleLists \ {<<2>>}],
        C \in CoupleLists,
        cap \in [HospitalUids -> 0..MaxCap],
        down \in [HospitalUids -> BOOLEAN] }

\* the files run with --formulate: the lists are complete
FormulateFiles ==
    { ProblemFile(S, C, cap, [h \in HospitalUids |-> FALSE]) :
        S \in [{11} -> {<<1, 2>>, <<2, 1>>}],
        C \in {<<>>} \cup {<<l>> : l \in CoupleLists},
        cap \in [HospitalUids -> 1..MaxCap] }

\* the files whose matchings are verified
VerifyFiles ==
    { ProblemFile(S, <<>>, cap, [h \in HospitalUids |-> down]) :
        S \in [SingleUids -> {<<1, 2>>, <<2, 1>>}],
        cap \in [HospitalUids -> 0..MaxCap],
        down \in BOOLEAN }
    \cup
    { ProblemFile(<<>>, << << <<1, 2>>, <<2, 1>> >> >>, cap,
                  [h \in HospitalUids |-> down]) :
        cap \in [HospitalUids -> 1..MaxCap],
        down \in BOOLEAN }

\* the uids of the residents a file declares, in the order of the lines
ResidentsOf(file) ==
    FlatMap(LAMBDA line : IF line.kind = "r" THEN <<line.uid>>
                          ELSE IF line.kind = "c" THEN <<line.r0, line.r1>>
                          ELSE <<>>, file)

\* the matching files over the residents of a file: a resident is left
\* out, written with -1, or written with a hospital
MatchingFiles(file) ==
    LET rs == ResidentsOf(file)
        RECURSIVE build(_)
        build(k) ==
            IF k > Len(rs) THEN {<<>>}
            ELSE LET rest == build(k + 1)
                 IN  rest \cup { << <<rs[k], t>> >> \o v :
                                   t \in HospitalUids \cup {NIL_HOSPITAL_SYMBOL},
                                   v \in rest }
    IN  build(1)

\* the second instances: the residents and hospitals of the first ones
\* with other lists and capacities, and an instance that shares no
\* resident with them
OtherFiles ==
    { ProblemFile((11 :> <<2, 1>>), <<>>, [h \in HospitalUids |-> 1],
                  [h \in HospitalUids |-> FALSE]),
      ProblemFile((11 :> <<1>>), << << <<2, 2>> >> >>, [h \in HospitalUids |-> MaxCap],
                  [h \in HospitalUids |-> TRUE]),
      << RLine(12, <<>>) >> }

\* files that declare a uid twice: a resident, a hospital, a couple, and a
\* member of a couple that is a resident already
DuplicateFiles ==
    LET r == RLine(11, <<1>>)
        c == CLine(50, CoupleResidents[1], CoupleResidents[2], << <<1, 2>> >>)
        p == PLine(1, 1, <<11>>)
        q == PLine(2, 1, <<>>)
    IN  { <<r, r, p>>,
          <<r, p, p>>,
          <<c, c, p, q>>,
          <<r, CLine(50, 11, CoupleResidents[2], << <<1, 2>> >>), p, q>> }

(***************************************************************************)
(* The program as a state machine: one process that runs main (or calls    *)
(* the solve functions with a verify file) on its arguments.               *)
(***************************************************************************)
VARIABLES
    args,           \* problem (the file), solver, formulate, verify_file, runs
    set_order,      \* the iteration order of a set of hospital uids
    pc,             \* where the process is
    resident_dict,  \* the module-level dictionaries of smp_c
    hospital_dict,
    couple_dict,
    problem,        \* the ProblemInstance from_file returned
    matching,       \* problem.matching
    encoding,       \* the clauses or rows handed to the solver
    solver_output,  \* what the solver wrote
    output,         \* the file written under the output name
    printed,        \* verify mode: the constraints printed as failing
    exception,      \* the uncaught exception, "" for none
    history,        \* the files written by the earlier runs of the process
    files,          \* the temporary files in the working directory
    general_uidallocator,  \* cplex_py.general_uidallocator.last_uid, -1 for None
    run,            \* concurrent runs: where each is, its suffix, its files
    directory,      \* concurrent runs: the files of the working directory
    buffer,         \* a ConstraintsBuffer and the file behind it
    named,          \* the constraints made since the last ConstraintsCollection
    call            \* a call of a function on its own: arguments and result

vars == <<args, set_order, pc, resident_dict, hospital_dict, couple_dict,
          problem, matching, encoding, solver_output, output, printed,
          exception, history, files, general_uidallocator,
          run, directory, buffer, named, call>>

\* the variables main leaves alone: those of the concurrent runs and of
\* the library objects used on their own
aside == <<run, directory, buffer, named, call>>

\* a temporary file of the current run of main: its name carries the
\* random suffix of the run
TempFile(kind) == <<kind, Len(history) + 1>>

NoValue == [kind |-> "none"]

\* no function has been called on its own
NoCall == [op |-> "none", done |-> FALSE]

\* the instance with the dictionaries as solve_sat and solve_mip read them
Instance ==
    [hospitals |-> problem.hospitals, singles |-> problem.singles,
     couples |-> problem.couples, resident_dict |-> resident_dict,
     hospital_dict |-> hospital_dict, couple_dict |-> couple_dict]

\* the process ends with the traceback of the exception name
Die(name) ==
    /\ pc' = "exit"
    /\ exception' = name

\* ProblemInstance.from_file(args.problem)
FromFile ==
    /\ pc = "main"
    /\ LET L == from_file(args.problem, FALSE, resident_dict, hospital_dict,
                          couple_dict, set_order)
       IN  /\ resident_dict' = L.resident_dict
           /\ hospital_dict' = L.hospital_dict
           /\ couple_dict' = L.couple_dict
           /\ IF L.err # ""
              THEN Die(L.err) /\ UNCHANGED <<problem, matching>>
              ELSE /\ problem' = [kind |-> "instance", hospitals |-> L.hospitals,
                                  singles |-> L.singles, couples |-> L.couples]
                   /\ matching' = <<>>
                   /\ pc' = IF args.other # <<>> THEN "load_other" ELSE "loaded"
                   /\ UNCHANGED exception
    /\ UNCHANGED <<args, set_order, encoding, solver_output, output, printed, history>>
    /\ UNCHANGED <<files, general_uidallocator, aside>>

\* ProblemInstance.from_file(args.other) before the first instance is
\* encoded: the instance returned is dropped, the constructors have
\* registered its entities
LoadOther ==
    /\ pc = "load_other"
    /\ LET L == from_file(args.other[1], FALSE, resident_dict, hospital_dict,
                          couple_dict, set_order)
       IN  /\ resident_dict' = L.resident_dict
           /\ hospital_dict' = L.hospital_dict
           /\ couple_dict' = L.couple_dict
           /\ IF L.err # ""
              THEN Die(L.err)
              ELSE pc' = "loaded" /\ UNCHANGED exception
    /\ UNCHANGED <<args, set_order, problem, matching, encoding, solver_output,
                   output, printed, history>>
    /\ UNCHANGED <<files, general_uidallocator, aside>>

\* DIMACSClause.render: the literals and the closing 0, one line
render(var_list) == var_list \o <<0>>

\* the count of solve_sat of the lines of the buffer file that are not
\* blank, taken without the first line
num_constraints_mutant(lines) ==
    Cardinality({i \in 2..Len(lines) : lines[i] # <<>>})

\* the count of solve_sat of the lines of the buffer file that are not
\* blank
num_constraints(lines) ==
    Cardinality({i \in 1..Len(lines) : lines[i] # <<>>})

\* the DIMACS file: the header 'p cnf <last_uid> <num_constraints>' and
\* the lines of the buffer file
dimacs_file(e) ==
    [kind |-> "dimacs", nvars |-> e.last_uid,
     nclauses |-> num_constraints(MapSeq(render, e.clauses)),
     clauses |-> e.clauses]

\* the LP file solve_using_CPLEX writes: the objective, the rows, the
\* binaries
lp_file(m) ==
    [kind |-> "lp", objective |-> m.binaries[1], rows |-> m.constraints,
     binaries |-> m.binaries]

\* a main that asks for the environment variable of the solver also when
\* it only formulates
NoSolverPath_mutant ==
    ~args.solver_path /\ args.verify_file = <<>>

\* main: the environment variable of the solver is not set, and the
\* solver is to run
NoSolverPath ==
    ~args.solver_path /\ ~args.formulate /\ args.verify_file = <<>>

\* the verify_file branch has evaluated the clauses: v.printed are the
\* failing ones, v.err the exception that ended it
SolveSatVerified(e, v) ==
    /\ encoding' = [kind |-> "cnf", e |-> e]
    /\ printed' = v.printed
    /\ pc' = "exit"
    /\ exception' = v.err
    /\ files' = files \cup {TempFile("constraints_buffer")}
    /\ UNCHANGED output

\* solve_sat after the encoding e: verify, or write the DIMACS file
SolveSatWith(e) ==
    IF e.err # ""
    THEN /\ Die(e.err)
         /\ files' = files \cup {TempFile("constraints_buffer")}
         /\ UNCHANGED <<encoding, output, printed>>
    ELSE IF args.verify_file # <<>>
    THEN SolveSatVerified(e, sat_verify(e, Instance, args.verify_file[1]))
    ELSE /\ encoding' = [kind |-> "cnf", e |-> e]
         /\ UNCHANGED <<printed, exception>>
         /\ IF args.formulate
            THEN /\ output' = dimacs_file(e)
                 /\ files' = (files \cup {TempFile("constraints_buffer")})
                                \ {TempFile("constraints_buffer")}
                 /\ pc' = "exit"
            ELSE /\ files' = files \cup {TempFile("constraints_buffer"),
                                         TempFile("solver_input")}
                 /\ pc' = "sat_solver"
                 /\ UNCHANGED output

\* solve_sat up to the call of the solver: the encoding, then the verify
\* branch, or the DIMACS file
SolveSat ==
    /\ pc = "loaded"
    /\ args.solver = "sat"
    /\ IF NoSolverPath
       THEN Die("no solver path") /\ UNCHANGED <<encoding, output, printed, files>>
       ELSE SolveSatWith(sat_encode(Instance, set_order))
    /\ UNCHANGED <<args, set_order, resident_dict, hospital_dict, couple_dict,
                   problem, matching, solver_output, history>>
    /\ UNCHANGED <<general_uidallocator, aside>>

\* the SAT solver on the DIMACS file: UNSATISFIABLE, or any model
SatSolver ==
    /\ pc = "sat_solver"
    /\ LET models == sat_models(encoding.e)
       IN  \/ /\ models = {}
              /\ solver_output' = [kind |-> "UNSATISFIABLE"]
           \/ \E model \in models :
                solver_output' = [kind |-> "SATISFIABLE", v |-> model]
    /\ pc' = "sat_solved"
    /\ files' = files \cup {TempFile("solver_output")}
    /\ UNCHANGED <<args, set_order, resident_dict, hospital_dict, couple_dict,
                   problem, matching, encoding, output, printed, exception, history>>
    /\ UNCHANGED <<general_uidallocator, aside>>

\* os.system('rm ...') of solve_sat: the solver input, the solver output,
\* the constraints buffer
SatTempFiles ==
    {TempFile("solver_input"), TempFile("solver_output"),
     TempFile("constraints_buffer")}

\* solve_sat after the solver: the matching read from the 'v' line, the
\* temporary files removed
SolveSatDecode ==
    /\ pc = "sat_solved"
    /\ IF solver_output.kind = "UNSATISFIABLE"
       THEN /\ pc' = "solved"
            /\ files' = files \ SatTempFiles
            /\ UNCHANGED <<matching, exception>>
       ELSE LET mu == sat_decode(encoding.e, Instance, solver_output.v)
            IN  /\ matching' = mu
                /\ IF DOMAIN mu = {}
                   THEN Die("AssertionError") /\ UNCHANGED files
                   ELSE /\ pc' = "solved"
                        /\ files' = files \ SatTempFiles
                        /\ UNCHANGED exception
    /\ UNCHANGED <<args, set_order, resident_dict, hospital_dict, couple_dict,
                   problem, encoding, solver_output, output, printed, history>>
    /\ UNCHANGED <<general_uidallocator, aside>>

\* the verify_file branch has evaluated the rows: v.printed are the
\* failing ones, v.err the exception that ended it
SolveMipVerified(m, v) ==
    /\ encoding' = [kind |-> "lp", m |-> m]
    /\ printed' = v.printed
    /\ pc' = "exit"
    /\ exception' = v.err
    /\ UNCHANGED <<output, files>>

\* solve_mip after the rows m: verify, or solve_using_CPLEX up to the
\* call of the solver, which writes the driver script and the LP file
SolveMipWith(m) ==
    /\ general_uidallocator' = m.last_uid
    /\ IF m.err # ""
       THEN Die(m.err) /\ UNCHANGED <<encoding, output, printed, files>>
       ELSE IF args.verify_file # <<>>
       THEN SolveMipVerified(m, mip_verify(m, Instance, args.verify_file[1]))
       ELSE IF m.binaries = <<>>
       THEN Die("IndexError") /\ UNCHANGED <<encoding, output, printed, files>>
       ELSE /\ encoding' = [kind |-> "lp", m |-> m]
            /\ UNCHANGED <<printed, exception>>
            /\ IF args.formulate
               THEN /\ output' = lp_file(m)
                    /\ files' = files \cup {TempFile("script")}
                    /\ pc' = "exit"
               ELSE /\ files' = files \cup {TempFile("script"), TempFile("lp")}
                    /\ pc' = "mip_solver"
                    /\ UNCHANGED output

\* solve_mip up to the call of the solver: the rows, then the verify
\* branch, or the LP file with the objective binaries[0]
SolveMip ==
    /\ pc = "loaded"
    /\ args.solver = "mip"
    /\ IF NoSolverPath
       THEN /\ Die("no solver path")
            /\ UNCHANGED <<encoding, output, printed, files, general_uidallocator>>
       ELSE SolveMipWith(mip_rows(ConstraintsCollection(general_uidallocator),
                                  Instance))
    /\ UNCHANGED <<args, set_order, resident_dict, hospital_dict, couple_dict,
                   problem, matching, solver_output, history>>
    /\ UNCHANGED aside

\* os.system('rm ...') of solve_using_CPLEX with clean_files: the LP file,
\* the solution, the script
MipTempFiles == {TempFile("lp"), TempFile("solution"), TempFile("script")}

\* solve_using_CPLEX from the call of the solver: no solution displayed
\* (it returns at once), or an optimal one (it reads it and removes its
\* files)
MipSolver ==
    /\ pc = "mip_solver"
    /\ LET optima == mip_optima(encoding.m)
       IN  \/ /\ optima = {}
              /\ solver_output' = [kind |-> "infeasible"]
              /\ files' = files \cup {TempFile("solution")}
           \/ /\ \E vals \in optima :
                    solver_output' = [kind |-> "optimal", vals |-> vals]
              /\ files' = (files \cup {TempFile("solution")}) \ MipTempFiles
    /\ pc' = "mip_solved"
    /\ UNCHANGED <<args, set_order, resident_dict, hospital_dict, couple_dict,
                   problem, matching, encoding, output, printed, exception, history>>
    /\ UNCHANGED <<general_uidallocator, aside>>

\* solve_mip after the solver: the matching read from the variables at 1
SolveMipDecode ==
    /\ pc = "mip_solved"
    /\ IF solver_output.kind = "infeasible"
       THEN UNCHANGED matching
       ELSE matching' = mip_decode(Instance, solver_output.vals)
    /\ pc' = "solved"
    /\ UNCHANGED <<args, set_order, resident_dict, hospital_dict, couple_dict,
                   problem, encoding, solver_output, output, printed,
                   exception, history>>
    /\ UNCHANGED <<files, general_uidallocator, aside>>

\* main, after the solve function returned: print_matching
PrintMatching ==
    /\ pc = "solved"
    /\ output' = [kind |-> "matching", file |-> print_matching(matching)]
    /\ pc' = "exit"
    /\ UNCHANGED <<args, set_order, resident_dict, hospital_dict, couple_dict,
                   problem, matching, encoding, solver_output, printed,
                   exception, history>>
    /\ UNCHANGED <<files, general_uidallocator, aside>>

\* a further run of main on the same arguments: in the same process, or in
\* a new one, where the dictionaries are empty again and the sets may
\* iterate otherwise
Rerun ==
    /\ pc = "exit"
    /\ exception = ""
    /\ Len(history) + 1 < args.runs
    /\ history' = Append(history, output)
    /\ pc' = "main"
    /\ \/ UNCHANGED <<set_order, resident_dict, hospital_dict, couple_dict,
                      general_uidallocator>>
       \/ /\ set_order' \in SetOrdersOf(args.problem)
          /\ resident_dict' = <<>>
          /\ hospital_dict' = (NIL_HOSPITAL_UID :> NIL_HOSPITAL)
          /\ couple_dict' = <<>>
          /\ general_uidallocator' = -1
    /\ problem' = NoValue
    /\ matching' = <<>>
    /\ encoding' = NoValue
    /\ solver_output' = NoValue
    /\ output' = NoValue
    /\ printed' = {}
    /\ UNCHANGED <<args, exception, files, aside>>

Next ==
    \/ FromFile
    \/ LoadOther
    \/ SolveSat
    \/ SatSolver
    \/ SolveSatDecode
    \/ SolveMip
    \/ MipSolver
    \/ SolveMipDecode
    \/ PrintMatching
    \/ Rerun

\* the process starts main on one of the argument records of A
InitOf(A) ==
    /\ args \in A
    /\ set_order \in SetOrdersOf(args.problem)
    /\ pc = "main"
    /\ resident_dict = <<>>
    /\ hospital_dict = (NIL_HOSPITAL_UID :> NIL_HOSPITAL)
    /\ couple_dict = <<>>
    /\ problem = NoValue
    /\ matching = <<>>
    /\ encoding = NoValue
    /\ solver_output = NoValue
    /\ output = NoValue
    /\ printed = {}
    /\ exception = ""
    /\ history = <<>>
    /\ files = {}
    /\ general_uidallocator = -1
    /\ run = <<>>
    /\ directory = {}
    /\ buffer = NoValue
    /\ named = <<>>
    /\ call = NoCall

\* main with --solver and without --formulate
SolveArgs(problems) ==
    { [problem |-> f, solver |-> s, formulate |-> FALSE, verify_file |-> <<>>,
       runs |-> 1, other |-> <<>>, solver_path |-> TRUE] :
        f \in problems, s \in {"sat", "mip"} }

\* main with --formulate, run once or again
FormulateArgs(problems) ==
    { [problem |-> f, solver |-> s, formulate |-> TRUE, verify_file |-> <<>>,
       runs |-> n, other |-> <<>>, solver_path |-> TRUE] :
        f \in problems, s \in {"sat", "mip"}, n \in 1..MaxRuns }

\* solve_sat / solve_mip called with a matching file to verify
VerifyArgs(problems) ==
    UNION { { [problem |-> f, solver |-> s, formulate |-> FALSE,
               verify_file |-> <<v>>, runs |-> 1, other |-> <<>>,
               solver_path |-> TRUE] :
                s \in {"sat", "mip"}, v \in MatchingFiles(f) } : f \in problems }

\* ProblemInstance.from_file called alone
LoadArgs(problems) ==
    { [problem |-> f, solver |-> "none", formulate |-> FALSE,
       verify_file |-> <<>>, runs |-> 1, other |-> <<>>,
       solver_path |-> TRUE] : f \in problems }

\* main without SAT_SOLVER_PATH / CPLEX_PATH in the environment
NoPathArgs(problems) ==
    { [problem |-> f, solver |-> s, formulate |-> fm, verify_file |-> <<>>,
       runs |-> 1, other |-> <<>>, solver_path |-> FALSE] :
        f \in problems, s \in {"sat", "mip"}, fm \in BOOLEAN }

\* a second instance is loaded between the load of the first and its
\* encoding with --formulate
OtherArgs(problems, others) ==
    { [problem |-> f, solver |-> s, formulate |-> TRUE, verify_file |-> <<>>,
       runs |-> 1, other |-> <<g>>, solver_path |-> TRUE] :
        f \in problems, g \in others, s \in {"sat", "mip"} }

Init ==
    \/ InitOf(SolveArgs(SinglesFiles))
    \/ InitOf(SolveArgs(CoupleFiles))
    \/ InitOf(FormulateArgs(FormulateFiles))
    \/ InitOf(VerifyArgs(VerifyFiles))
    \/ InitOf(LoadArgs(DuplicateFiles))
    \/ InitOf(NoPathArgs(FormulateFiles))
    \/ InitOf(OtherArgs(FormulateFiles, OtherFiles))

Spec == Init /\ [][Next]_vars

\* main is not running: the state of its variables while the library
\* objects or the concurrent runs are looked at on their own
MainIdle ==
    /\ args = NoValue
    /\ set_order = Ascending(HospitalUids \cup {NIL_HOSPITAL_UID})
    /\ pc = "idle"
    /\ resident_dict = <<>>
    /\ hospital_dict = (NIL_HOSPITAL_UID :> NIL_HOSPITAL)
    /\ couple_dict = <<>>
    /\ problem = NoValue
    /\ matching = <<>>
    /\ encoding = NoValue
    /\ solver_output = NoValue
    /\ output = NoValue
    /\ printed = {}
    /\ exception = ""
    /\ history = <<>>
    /\ files = {}

mainVars == <<args, set_order, pc, resident_dict, hospital_dict, couple_dict,
              problem, matching, encoding, solver_output, output, printed,
              exception, history, files>>

(***************************************************************************)
(* The library objects on their own: a ConstraintsBuffer (smp_c.py) that   *)
(* a caller constructs, appends clauses to and flushes, and the            *)
(* constraints and ConstraintsCollections of cplex_py.py.  buffer.file is  *)
(* the backing file, a sequence of lines; buffer.appended and buffer.last  *)
(* record the clauses appended since the construction and the last call.   *)
(* named.made records the constraints constructed since the last           *)
(* ConstraintsCollection (named.collection: there was one), named.earlier  *)
(* how many were constructed before it, counted up to MaxNamed.            *)
(***************************************************************************)
BufferSize == 2
MaxAppends == 4
MaxNamed == 3

\* the clauses a caller appends
Clauses == { <<1>>, <<-1, 2>> }

\* ConstraintsBuffer.__init__: the file is opened for writing and left
\* empty
ConstraintsBuffer_init(b) ==
    [constructed |-> TRUE, file |-> <<>>, buffer_list |-> <<>>,
     appended |-> <<>>, last |-> "init"]

\* ConstraintsBuffer.append that drops the clause it was given when the
\* window is full
ConstraintsBuffer_append_mutant(b, constraint) ==
    IF Len(b.buffer_list) < BufferSize
    THEN [b EXCEPT !.buffer_list = Append(@, constraint),
                   !.appended = Append(@, constraint),
                   !.last = "append"]
    ELSE [b EXCEPT !.file = @ \o MapSeq(render, b.buffer_list),
                   !.buffer_list = <<>>,
                   !.appended = Append(@, constraint),
                   !.last = "append_full"]

\* ConstraintsBuffer.append: into the window, or, the window full, the
\* window and the clause into the file
ConstraintsBuffer_append(b, constraint) ==
    IF Len(b.buffer_list) < BufferSize
    THEN [b EXCEPT !.buffer_list = Append(@, constraint),
                   !.appended = Append(@, constraint),
                   !.last = "append"]
    ELSE [b EXCEPT !.file = @ \o MapSeq(render, b.buffer_list)
                              \o <<render(constraint)>>,
                   !.buffer_list = <<>>,
                   !.appended = Append(@, constraint),
                   !.last = "append_full"]

\* ConstraintsBuffer.flush that keeps the window
ConstraintsBuffer_flush_mutant(b) ==
    [b EXCEPT !.file = @ \o MapSeq(render, b.buffer_list),
              !.last = "flush"]

\* ConstraintsBuffer.flush: the window into the file
ConstraintsBuffer_flush(b) ==
    [b EXCEPT !.file = @ \o MapSeq(render, b.buffer_list),
              !.buffer_list = <<>>,
              !.last = "flush"]

\* Constraint.__init__(var_side, const_side, name): the name given, or
\* 'c%d' of the next number of the allocator ("" stands for no name)
Constraint_init(last_uid, name) ==
    IF name # ""
    THEN [last_uid |-> last_uid, given |-> TRUE, name |-> <<name>>]
    ELSE [last_uid |-> last_uid + 1, given |-> FALSE, name |-> <<"c", last_uid + 1>>]

BufferInit ==
    /\ ~buffer.constructed
    /\ buffer' = ConstraintsBuffer_init(buffer)
    /\ UNCHANGED <<mainVars, call, general_uidallocator, named, run, directory>>

BufferAppend ==
    /\ buffer.constructed
    /\ Len(buffer.appended) < MaxAppends
    /\ \E constraint \in Clauses :
          buffer' = ConstraintsBuffer_append(buffer, constraint)
    /\ UNCHANGED <<mainVars, call, general_uidallocator, named, run, directory>>

BufferFlush ==
    /\ buffer.constructed
    /\ buffer' = ConstraintsBuffer_flush(buffer)
    /\ UNCHANGED <<mainVars, call, general_uidallocator, named, run, directory>>

NewCollection ==
    /\ general_uidallocator' = ConstraintsCollection(general_uidallocator).last_uid
    /\ named' = [collection |-> TRUE, made |-> <<>>,
                 earlier |-> Min(named.earlier + Len(named.made), MaxNamed)]
    /\ UNCHANGED <<mainVars, call, buffer, run, directory>>

NewConstraint ==
    /\ Len(named.made) < MaxNamed
    /\ \E name \in {"", "cap"} :
          LET c == Constraint_init(general_uidallocator, name)
          IN  /\ general_uidallocator' = c.last_uid
              /\ named' = [named EXCEPT !.made =
                              Append(@, [given |-> c.given, name |-> c.name])]
    /\ UNCHANGED <<mainVars, call, buffer, run, directory>>

NextLib ==
    \/ BufferInit
    \/ BufferAppend
    \/ BufferFlush
    \/ NewCollection
    \/ NewConstraint

\* the file of the buffer may exist, with lines in it, before the buffer
\* is constructed on it
InitLib ==
    /\ MainIdle
    /\ general_uidallocator = -1
    /\ named = [collection |-> FALSE, made |-> <<>>, earlier |-> 0]
    /\ buffer \in { [constructed |-> FALSE, file |-> f, buffer_list |-> <<>>,
                      appended |-> <<>>, last |-> "none"] :
                        f \in {<<>>, <<render(<<2>>)>>} }
    /\ run = <<>>
    /\ directory = {}
    /\ call = NoCall

SpecLib == InitLib /\ [][NextLib]_vars

(***************************************************************************)
(* Two runs in one working directory.  A run of solve_sat draws a suffix,  *)
(* tests whether its constraints buffer exists (and draws again if so),    *)
(* then writes the buffer, the solver input and the solver output and      *)
(* removes them; a run of solve_using_CPLEX tests its LP file, then        *)
(* writes the script, the LP file and the solution.  run[r].wrote are the  *)
(* files r has written, directory the files that exist.                    *)
(***************************************************************************)
MaxSuffix == 1

Runs == {1, 2}

\* random.randint(0, 100000), over the suffixes of the model
Suffixes == 0..MaxSuffix

\* the file whose existence the run tests
TestedFile(kind, suffix) ==
    IF kind = "sat" THEN <<"constraints_buffer-", suffix>>
    ELSE <<"problem-.lp", suffix>>

\* the files the run writes, in the order it writes them
WrittenFiles(kind, suffix) ==
    IF kind = "sat"
    THEN << <<"constraints_buffer-", suffix>>, <<"problem-.sat", suffix>>,
            <<"output-", suffix>> >>
    ELSE << <<"script", suffix>>, <<"problem-.lp", suffix>>,
            <<"output", suffix>> >>

\* random_suffix = random.randint(0, 100000)
Draw(r) ==
    /\ run[r].pc = "draw"
    /\ \E suffix \in Suffixes :
          run' = [run EXCEPT ![r].suffix = suffix, ![r].pc = "test"]
    /\ UNCHANGED <<mainVars, call, general_uidallocator, named, buffer, directory>>

\* while os.path.isfile(...): draw again
Test(r) ==
    /\ run[r].pc = "test"
    /\ run' = [run EXCEPT ![r].pc =
                 IF TestedFile(run[r].kind, run[r].suffix) \in directory
                 THEN "draw" ELSE "write"]
    /\ UNCHANGED <<mainVars, call, general_uidallocator, named, buffer, directory>>

\* open(..., 'w') of the next file of the run, or the solver writing its
\* output
Write(r) ==
    /\ run[r].pc = "write"
    /\ LET all == WrittenFiles(run[r].kind, run[r].suffix)
           f == all[Cardinality(run[r].wrote) + 1]
       IN  /\ directory' = directory \cup {f}
           /\ run' = [run EXCEPT ![r].wrote = @ \cup {f},
                                 ![r].pc = IF Cardinality(run[r].wrote) + 1 = Len(all)
                                           THEN "remove" ELSE "write"]
    /\ UNCHANGED <<mainVars, call, general_uidallocator, named, buffer>>

\* os.system('rm ...')
Remove(r) ==
    /\ run[r].pc = "remove"
    /\ directory' = directory \ run[r].wrote
    /\ run' = [run EXCEPT ![r].pc = "done"]
    /\ UNCHANGED <<mainVars, call, general_uidallocator, named, buffer>>

NextTemp ==
    \/ \E r \in Runs : Draw(r)
    \/ \E r \in Runs : Test(r)
    \/ \E r \in Runs : Write(r)
    \/ \E r \in Runs : Remove(r)

InitTemp ==
    /\ MainIdle
    /\ general_uidallocator = -1
    /\ named = <<>>
    /\ buffer = NoValue
    /\ \E kinds \in [Runs -> {"sat", "mip"}] :
          run = [r \in Runs |-> [kind |-> kinds[r], pc |-> "draw", suffix |-> 0,
                                 wrote |-> {}]]
    /\ directory = {}
    /\ call = NoCall

SpecTemp == InitTemp /\ [][NextTemp]_vars

(***************************************************************************)
(* The functions called on their own: call holds the arguments of a call   *)
(* and, once it is done, its result (err names the exception that ended    *)
(* it).                                                                    *)
(***************************************************************************)
\* rank order lists of the 'r' lines loaded with append_nil
AppendNilLists ==
    { <<>>, <<NIL_HOSPITAL_SYMBOL>>, <<1>>, <<1, NIL_HOSPITAL_SYMBOL>>,
      <<1, 2>>, <<2, 1, NIL_HOSPITAL_SYMBOL>> }

\* the pairs of the 'c' lines loaded with append_nil, as tokens
AppendNilPairs ==
    { << <<1, 2>> >>,
      << <<1, 2>>, <<NIL_HOSPITAL_SYMBOL, NIL_HOSPITAL_SYMBOL>> >>,
      << <<NIL_HOSPITAL_SYMBOL, NIL_HOSPITAL_SYMBOL>> >>,
      << <<1, NIL_HOSPITAL_SYMBOL>>, <<2, 2>> >> }

\* problem files: two singles, at most one couple, two hospitals
AppendNilFiles ==
    { << RLine(11, S[11]), RLine(12, S[12]) >>
      \o C
      \o << PLine(1, 1, <<11, 12, 21>>), PLine(2, 1, <<12, 22>>) >> :
        S \in [SingleUids -> AppendNilLists],
        C \in {<<>>} \cup {<< CLine(50, 21, 22, l) >> : l \in AppendNilPairs} }

\* ProblemInstance.from_file(filename, append_nil=True) in a new process
FromFileAppendNil ==
    /\ call.op = "from_file"
    /\ ~call.done
    /\ LET L == from_file(call.file, TRUE, <<>>,
                          (NIL_HOSPITAL_UID :> NIL_HOSPITAL), <<>>, set_order)
       IN  call' = [op |-> "from_file", done |-> TRUE, file |-> call.file,
                    err |-> L.err, singles |-> L.singles, couples |-> L.couples]
    /\ UNCHANGED <<mainVars, general_uidallocator, named, buffer, run, directory>>

\* the longest pair list of a couple constructed on its own
MaxPairs == 2

\* the pair lists of a couple constructed on its own
RankedPairLists ==
    UNION { [1..n -> (HospitalUids \cup {NIL_HOSPITAL_UID})
                     \X (HospitalUids \cup {NIL_HOSPITAL_UID})] :
            n \in 1..MaxPairs }

\* Couple(...).get_ranked_hospitals(member); the interpreter iterates the
\* sets in one of the orders of SetOrders
GetRankedHospitals ==
    /\ call.op = "get_ranked_hospitals"
    /\ ~call.done
    /\ \E order \in SetOrders :
          call' = [op |-> "get_ranked_hospitals", done |-> TRUE,
                   internal_list |-> call.internal_list, member |-> call.member,
                   result |-> get_ranked_hospitals(
                                 Couple(50, CoupleResidents, call.internal_list,
                                        order),
                                 call.member)]
    /\ UNCHANGED <<mainVars, general_uidallocator, named, buffer, run, directory>>

\* the longest list of a ListPreferenceFunction queried on its own
MaxList == 3

\* the agents of the lists queried
QueryUids == SingleUids \cup Range(CoupleResidents)

\* the four queries of ListPreferenceFunction(internal_list) for uid: each
\* loop returns at uid and raises when the list ends without it, and
\* list.index raises ValueError
ListPreferenceFunction(internal_list, uid) ==
    LET found == uid \in Range(internal_list)
        returned(value) == [err |-> "", value |-> value]
        raised(name) == [err |-> name, value |-> <<>>]
    IN  [get_all_preferred |->
            IF found THEN returned(get_all_preferred(internal_list, uid))
            ELSE raised("Exception"),
         get_all_dispreferred |->
            IF found THEN returned(get_all_dispreferred(internal_list, uid))
            ELSE raised("Exception"),
         get_all_weakly_preferred |->
            IF found THEN returned(get_all_weakly_preferred(internal_list, uid))
            ELSE raised("Exception"),
         get_rank |->
            IF found THEN returned(get_rank(internal_list, uid))
            ELSE raised("ValueError")]

\* the queries of a duplicate-free list for an agent
PreferenceQueries ==
    /\ call.op = "queries"
    /\ ~call.done
    /\ call' = [op |-> "queries", done |-> TRUE,
                internal_list |-> call.internal_list, uid |-> call.uid,
                result |-> ListPreferenceFunction(call.internal_list, call.uid)]
    /\ UNCHANGED <<mainVars, general_uidallocator, named, buffer, run, directory>>

\* the calls made: from_file(append_nil=True) of a file
FromFileCalls ==
    { [op |-> "from_file", done |-> FALSE, file |-> file] :
        file \in AppendNilFiles }

\* the ranked hospitals of a member of a couple
RankedCalls ==
    { [op |-> "get_ranked_hospitals", done |-> FALSE,
       internal_list |-> internal_list, member |-> member] :
        internal_list \in RankedPairLists, member \in {0, 1} }

\* the queries of a duplicate-free list for an agent
QueryCalls ==
    { [op |-> "queries", done |-> FALSE, internal_list |-> internal_list,
       uid |-> uid] :
        internal_list \in SeqsNoDup(QueryUids, 0, MaxList), uid \in QueryUids }

\* problem files whose lists may name the nil hospital: a single with the
\* nil uid in its list, a couple with the pair -1 -1
NilListFiles ==
    { << RLine(11, S) >> \o C
      \o << PLine(1, cap, (IF 1 \in Range(S) THEN <<11>> ELSE <<>>)
                           \o (IF C = <<>> THEN <<>> ELSE <<21>>)),
            PLine(2, cap, IF C = <<>> THEN <<>> ELSE <<22>>) >> :
        S \in { <<1>>, <<1, NIL_HOSPITAL_UID>>, <<NIL_HOSPITAL_UID>> },
        C \in { <<>>,
                << CLine(50, 21, 22, << <<1, 2>> >>) >>,
                << CLine(50, 21, 22,
                         << <<1, 2>>,
                            <<NIL_HOSPITAL_SYMBOL, NIL_HOSPITAL_SYMBOL>> >>) >> },
        cap \in 1..MaxCap }

\* solve_mip(run_solver=False) of a file
SolveMipCalls ==
    { [op |-> "solve_mip", done |-> FALSE, file |-> file] :
        file \in NilListFiles }

\* from_file and solve_mip(run_solver=False) in a new process: the rows
\* and the binaries written, or the exception
SolveMipFormulate ==
    /\ call.op = "solve_mip"
    /\ ~call.done
    /\ LET L == from_file(call.file, FALSE, <<>>,
                          (NIL_HOSPITAL_UID :> NIL_HOSPITAL), <<>>, set_order)
           m == IF L.err # "" THEN Raise(EmptyProgram, L.err)
                ELSE mip_rows(ConstraintsCollection(-1), L)
       IN  call' = [op |-> "solve_mip", done |-> TRUE, file |-> call.file,
                    err |-> m.err, singles |-> L.singles, couples |-> L.couples,
                    constraints |-> m.constraints, binaries |-> m.binaries]
    /\ UNCHANGED <<mainVars, general_uidallocator, named, buffer, run, directory>>

NextFn ==
    \/ FromFileAppendNil
    \/ GetRankedHospitals
    \/ PreferenceQueries
    \/ SolveMipFormulate

InitFn ==
    /\ MainIdle
    /\ general_uidallocator = -1
    /\ named = <<>>
    /\ buffer = NoValue
    /\ run = <<>>
    /\ directory = {}
    /\ \/ call \in FromFileCalls
       \/ call \in RankedCalls
       \/ call \in QueryCalls
       \/ call \in SolveMipCalls

SpecFn == InitFn /\ [][NextFn]_vars


(***************************************************************************)
(* Stability, by its definition.  A matching mu maps every resident of the *)
(* instance to a hospital uid, the nil uid for an unmatched resident.      *)
(***************************************************************************)
ResidentUids(P) ==
    {P.singles[i].uid : i \in 1..Len(P.singles)}
    \cup UNION {Range(P.couples[i].residents) : i \in 1..Len(P.couples)}

\* a decoded matching as a map of every resident
Total(P, decoded) ==
    [r \in ResidentUids(P) |->
        IF r \in DOMAIN decoded THEN decoded[r] ELSE NIL_HOSPITAL_UID]

\* each single on its list or unmatched, each couple on a pair of its list
\* or unmatched
OnLists(P, mu) ==
    /\ \A i \in 1..Len(P.singles) :
          mu[P.singles[i].uid] \in Range(P.singles[i].prefs) \cup {NIL_HOSPITAL_UID}
    /\ \A i \in 1..Len(P.couples) :
          LET c == P.couples[i]
          IN  <<mu[c.residents[1]], mu[c.residents[2]]>>
                \in Range(c.prefs) \cup {<<NIL_HOSPITAL_UID, NIL_HOSPITAL_UID>>}

WithinCapacity(P, mu) ==
    \A i \in 1..Len(P.hospitals) :
        Cardinality({r \in DOMAIN mu : mu[r] = P.hospitals[i].uid})
            <= P.hospitals[i].capacity

HospitalOf(P, h_uid) ==
    CHOOSE h \in Range(P.hospitals) : h.uid = h_uid

\* the residents h ranks above r
Above(h, r) == {h.prefs[k] : k \in 1..(IndexOf(h.prefs, r) - 1)}

\* how many residents that h ranks above r are at h
HeldAbove(mu, h, r) == Cardinality({x \in Above(h, r) \cap DOMAIN mu : mu[x] = h.uid})

\* the rank of the current assignment in a list, past the end when it is
\* not on the list
CurrentRank(l, x) == IF IndexOf(l, x) = 0 THEN Len(l) + 1 ELSE IndexOf(l, x)

\* the single s and the hospital h block mu
BlocksSingle(P, mu, s, h_uid) ==
    /\ IndexOf(s.prefs, h_uid) # 0
    /\ IndexOf(s.prefs, h_uid) < CurrentRank(s.prefs, mu[s.uid])
    /\ h_uid # NIL_HOSPITAL_UID
    /\ HeldAbove(mu, HospitalOf(P, h_uid), s.uid) < HospitalOf(P, h_uid).capacity

\* h takes r: r is there, or h is the nil hospital, or h is not full with
\* residents it ranks above r
Takes(P, mu, h_uid, r) ==
    \/ h_uid = NIL_HOSPITAL_UID
    \/ mu[r] = h_uid
    \/ HeldAbove(mu, HospitalOf(P, h_uid), r) < HospitalOf(P, h_uid).capacity

\* the pair accommodates the couple; in one hospital, the member it ranks
\* lower counts its partner among the residents above it
Accommodates(P, mu, c, pair) ==
    IF pair[1] # pair[2] \/ pair[1] = NIL_HOSPITAL_UID
    THEN Takes(P, mu, pair[1], c.residents[1]) /\ Takes(P, mu, pair[2], c.residents[2])
    ELSE LET h  == HospitalOf(P, pair[1])
             r0 == c.residents[1]
             r1 == c.residents[2]
             lo == IF IndexOf(h.prefs, r0) < IndexOf(h.prefs, r1) THEN r1 ELSE r0
             hi == IF lo = r0 THEN r1 ELSE r0
         IN  Cardinality({x \in Above(h, lo) : x = hi \/ mu[x] = h.uid}) < h.capacity

BlocksCouple(P, mu, c, k) ==
    /\ k < CurrentRank(c.prefs, <<mu[c.residents[1]], mu[c.residents[2]]>>)
    /\ Accommodates(P, mu, c, c.prefs[k])

Stable(P, mu) ==
    /\ OnLists(P, mu)
    /\ WithinCapacity(P, mu)
    /\ \A i \in 1..Len(P.singles) : \A h \in Range(P.singles[i].prefs) :
          ~BlocksSingle(P, mu, P.singles[i], h)
    /\ \A i \in 1..Len(P.couples) : \A k \in 1..Len(P.couples[i].prefs) :
          ~BlocksCouple(P, mu, P.couples[i], k)

StableMatchings(P) ==
    {mu \in [ResidentUids(P) -> HospitalUids \cup {NIL_HOSPITAL_UID}] : Stable(P, mu)}

\* the matchings the models of the CNF decode to, and those of the LP
SatMatchings(e, P) == {Total(P, sat_decode(e, P, model)) : model \in sat_models(e)}

MipMatchings(m, P) == {Total(P, mip_decode(P, vals)) : vals \in mip_solutions(m)}

(***************************************************************************)
(* The properties                                                          *)
(***************************************************************************)
\* the instance is loaded and has no couple
SinglesOnly == problem.kind = "instance" /\ problem.couples = <<>>

\* solve_sat was called to solve or to formulate, and has gone past the
\* encoding
SatEncoded ==
    /\ args.solver = "sat"
    /\ args.verify_file = <<>>
    /\ problem.kind = "instance"
    /\ pc # "loaded"

\* the exit status of the process: 0 unless an exception ended it
ExitCode == IF exception = "" THEN 0 ELSE 1

\* C1: for an instance of singles only, solve_sat emits a CNF, and the
\* matchings its satisfying assignments decode to are exactly the stable
\* matchings: in each of them, every hospital a single prefers to its own
\* holds cap(h) residents it prefers to that single.
C1_SatSinglesExact ==
    SatEncoded /\ SinglesOnly =>
        /\ encoding.kind = "cnf"
        /\ pc = "sat_solver" =>
              SatMatchings(encoding.e, Instance) = StableMatchings(Instance)

\* the value of a row of the LP under the matching mu of singles
RowHoldsUnder(row, mu) ==
    LET total == FoldSeq(LAMBDA acc, t :
                    acc + t.coeff * (IF mu[t.var[2]] = t.var[3] THEN 1 ELSE 0),
                    0, row.terms)
    IN  IF row.kind = "=" THEN total = row.const ELSE total <= row.const

\* the S1 rows of the instance
S1Rows(P) == mip_stab_single(EmptyProgram, P).constraints

\* the single s is assigned worse than the hospital h it ranks
AssignedWorse(mu, s, h_uid) ==
    /\ IndexOf(s.prefs, h_uid) # 0
    /\ IndexOf(s.prefs, h_uid) < CurrentRank(s.prefs, mu[s.uid])

\* C2: in every 0/1 solution of the rows solve_mip builds for singles, a
\* single assigned worse than a hospital h it ranks leaves h with at least
\* cap(h) residents h prefers to it; and every stable matching of the
\* instance satisfies all the S1 rows.
C2_MipSinglesS1 ==
    pc = "mip_solver" /\ SinglesOnly =>
        /\ \A vals \in mip_solutions(encoding.m) :
              LET mu == Total(Instance, mip_decode(Instance, vals))
              IN  \A i \in 1..Len(problem.singles) :
                    \A h \in Range(problem.singles[i].prefs) :
                      AssignedWorse(mu, problem.singles[i], h) =>
                        HeldAbove(mu, HospitalOf(Instance, h), problem.singles[i].uid)
                            >= HospitalOf(Instance, h).capacity
        /\ \A mu \in StableMatchings(Instance) :
              \A k \in 1..Len(S1Rows(Instance)) :
                  RowHoldsUnder(S1Rows(Instance)[k], mu)

\* a solution of the LP leaves a single out of a hospital of capacity 1 or
\* more that it ranks above its own
C2_Witness ==
    /\ pc = "mip_solver"
    /\ SinglesOnly
    /\ \E vals \in mip_solutions(encoding.m) :
          LET mu == Total(Instance, mip_decode(Instance, vals))
          IN  \E i \in 1..Len(problem.singles) :
                \E h \in Range(problem.singles[i].prefs) :
                    /\ AssignedWorse(mu, problem.singles[i], h)
                    /\ HospitalOf(Instance, h).capacity >= 1

\* the matchings a model of the CNF stands for: each resident at a hospital
\* whose matching variable is true
ModelMatchings(e, P, model) ==
    {mu \in [ResidentUids(P) -> HospitalUids \cup {NIL_HOSPITAL_UID}] :
        \A r \in ResidentUids(P) :
            /\ <<r, mu[r]>> \in DOMAIN e.res_match
            /\ model[e.res_match[<<r, mu[r]>>]]}

\* C3: for an instance with couples, solve_sat emits a CNF; in every
\* satisfying assignment no pair a couple prefers to its own accommodates
\* the couple; and every stable matching extends to a satisfying assignment.
C3_SatCouplesExact ==
    SatEncoded /\ problem.couples # <<>> =>
        /\ encoding.kind = "cnf"
        /\ pc = "sat_solver" =>
              /\ \A model \in sat_models(encoding.e) :
                    \A mu \in ModelMatchings(encoding.e, Instance, model) :
                      \A i \in 1..Len(problem.couples) :
                        \A k \in 1..Len(problem.couples[i].prefs) :
                            ~BlocksCouple(Instance, mu, problem.couples[i], k)
              /\ \A mu \in StableMatchings(Instance) :
                    \E model \in sat_models(encoding.e) :
                        mu \in ModelMatchings(encoding.e, Instance, model)

\* C4: for every instance, the matchings of the 0/1 solutions of the LP of
\* solve_mip are the matchings of the satisfying assignments of the CNF of
\* solve_sat.
C4_BackEndsAgree ==
    SatEncoded =>
        /\ encoding.kind = "cnf"
        /\ pc = "sat_solver" =>
              SatMatchings(encoding.e, Instance)
                = MipMatchings(mip_encode(Instance), Instance)

\* C5: the matching solve_sat decodes from a model puts each single on its
\* list or at nil, each couple on a pair of its list or at (nil, nil), and
\* no hospital over its capacity.
C5_SatDecoderFeasible ==
    pc = "solved" /\ args.solver = "sat" /\ solver_output.kind = "SATISFIABLE" =>
        /\ \A i \in 1..Len(problem.singles) : problem.singles[i].uid \in DOMAIN matching
        /\ OnLists(Instance, Total(Instance, matching))
        /\ WithinCapacity(Instance, Total(Instance, matching))

\* scenario E2 with r1 = 11, r2 = 12, h1 = 1, h2 = 2
E2File ==
    << RLine(11, <<1, 2>>), RLine(12, <<2, 1>>),
       PLine(1, 1, <<12, 11>>), PLine(2, 1, <<11, 12>>) >>

\* the systems built for E2, once built
E2Sat == args.problem = E2File /\ pc = "sat_solver"
E2Mip == args.problem = E2File /\ pc = "mip_solver"

\* C6, as stated: the systems emitted for E2 admit exactly one matching,
\* {r1: h2, r2: h1}.
C6_E2OneMatching ==
    /\ E2Sat => SatMatchings(encoding.e, Instance) = {(11 :> 2) @@ (12 :> 1)}
    /\ E2Mip => MipMatchings(encoding.m, Instance) = {(11 :> 2) @@ (12 :> 1)}

\* C6, amended: the systems emitted for E2 admit exactly two matchings,
\* {r1: h1, r2: h2} and {r1: h2, r2: h1}.
C6_E2TwoMatchings ==
    /\ E2Sat => SatMatchings(encoding.e, Instance)
                    = {(11 :> 1) @@ (12 :> 2), (11 :> 2) @@ (12 :> 1)}
    /\ E2Mip => MipMatchings(encoding.m, Instance)
                    = {(11 :> 1) @@ (12 :> 2), (11 :> 2) @@ (12 :> 1)}

\* main on E2 ends with the matching {r1: h1, r2: h2} written
C6_Witness ==
    /\ args.problem = E2File
    /\ pc = "exit"
    /\ output.kind = "matching"
    /\ output.file = [m |-> 1, lines |-> {<<11, 1>>, <<12, 2>>}]

\* C7: two runs of the encoder in formulate mode on the same instance write
\* the same file, whatever ran before in the process and whatever order a
\* set iterates in.
C7_EncodingDeterministic ==
    pc = "exit" /\ args.formulate /\ exception = "" /\ history # <<>> =>
        output = history[Len(history)]

\* the matching a matching file describes: the last line of a resident,
\* nil for -1 and for a resident the file leaves out
FileMatching(P, v) ==
    Total(P, FoldSeq(LAMBDA acc, line :
                        (line[1] :> pair_token(line[2])) @@ acc,
                     <<>>, v))

\* C8: on every matching file, the verify mode of solve_mip and of solve_sat
\* completes, and prints no failing constraint if and only if the matching
\* of the file is stable.
C8_VerifySound ==
    pc = "exit" /\ args.verify_file # <<>> =>
        /\ exception = ""
        /\ printed = {} <=> Stable(Instance, FileMatching(Instance, args.verify_file[1]))

\* C9: when the solver reports UNSATISFIABLE, or displays no solution, the
\* solve function returns with the matching empty, and main writes a
\* matching file with the header 'm 0' and exits with the code 0.
C9_InfeasibleIsNoError ==
    solver_output.kind \in {"UNSATISFIABLE", "infeasible"} =>
        /\ exception = ""
        /\ pc \in {"solved", "exit"} => matching = <<>>
        /\ pc = "exit" => /\ output = [kind |-> "matching",
                                       file |-> [m |-> 0, lines |-> {}]]
                          /\ ExitCode = 0

\* main has ended on an instance the SAT solver found unsatisfiable
C9_Witness ==
    /\ solver_output.kind = "UNSATISFIABLE"
    /\ pc = "exit"
    /\ output.kind = "matching"

\* the uids a line declares as residents
DeclaredResidents(line) ==
    IF line.kind = "r" THEN <<line.uid>>
    ELSE IF line.kind = "c" THEN <<line.r0, line.r1>>
    ELSE <<>>

\* the file declares two residents, two hospitals or two couples with one
\* uid, or a couple with a member that is a resident already
DeclaresTwice(file) ==
    \E i, j \in 1..Len(file) :
        /\ i < j
        /\ \/ file[i].kind = file[j].kind /\ file[i].kind \in {"r", "p", "c"}
                /\ file[i].uid = file[j].uid
           \/ Range(DeclaredResidents(file[i])) \cap Range(DeclaredResidents(file[j])) # {}

\* C10: from_file fails, and returns no instance, on a file that declares a
\* uid twice.
C10_LoaderRejectsDuplicates ==
    pc # "main" /\ DeclaresTwice(args.problem) =>
        /\ exception # ""
        /\ problem = NoValue

\* a run of main or of a solve function has returned without an exception
Returned == pc = "exit" /\ exception = "" /\ args.solver # "none"

\* C11: when a solving run returns (a solution found, no solution, verify
\* mode, formulate mode), no temporary file of the run is left: the
\* constraints buffer, the solver input, the solver output, the script.
C11_TempFilesRemoved == Returned => files = {}

\* C12: two runs in one working directory never write the same file.
C12_NoCollision ==
    \A a, b \in Runs : a # b => run[a].wrote \cap run[b].wrote = {}

\* C13: the file and the window of a ConstraintsBuffer hold the clauses
\* appended since its construction, rendered one per line, each once and
\* in the order of the appends; after a flush all of them are in the
\* file, so that a further flush adds nothing.
C13_BufferKeepsAll ==
    buffer.constructed =>
        /\ buffer.file \o MapSeq(render, buffer.buffer_list)
              = MapSeq(render, buffer.appended)
        /\ buffer.last = "flush" =>
              buffer.file = MapSeq(render, buffer.appended)

\* the window has filled and was written out, more clauses came, and the
\* buffer was flushed
C13_Witness ==
    /\ buffer.constructed
    /\ buffer.last = "flush"
    /\ Len(buffer.appended) > BufferSize + 1
    /\ Len(buffer.file) = Len(buffer.appended)

\* C14: the window of the buffer never holds more than buffer_size
\* clauses, and holds none after the append that found it full and after
\* a flush.
C14_WindowBounded ==
    buffer.constructed =>
        /\ Len(buffer.buffer_list) <= BufferSize
        /\ buffer.last \in {"append_full", "flush"} => buffer.buffer_list = <<>>

\* an append has found the window full
C14_Witness == buffer.constructed /\ buffer.last = "append_full"

\* the number of the constraints without a name among the first i made
Unnamed(i) == Cardinality({j \in 1..i : ~named.made[j].given})

\* C15: after a ConstraintsCollection is constructed, the n-th constraint
\* made without a name is named c<n-1>, whatever was made before; a
\* constraint with a name of its own takes no number.
C15_NamesRestart ==
    named.collection =>
        \A i \in 1..Len(named.made) :
            ~named.made[i].given => named.made[i].name = <<"c", Unnamed(i) - 1>>

\* constraints were made before the collection, and after it one with a
\* name and then one without
C15_Witness ==
    /\ named.collection
    /\ named.earlier > 0
    /\ Len(named.made) >= 2
    /\ named.made[1].given
    /\ ~named.made[2].given

\* C16: in the DIMACS file the header counts the clause lines and the
\* variables allocated, the ids are 1..num_vars, and every clause is
\* non-empty with literals that are not 0 and within the variables.
C16_DimacsConsistent ==
    pc = "exit" /\ output.kind = "dimacs" =>
        /\ output.nclauses = Len(output.clauses)
        /\ output.nvars = Cardinality(DOMAIN encoding.e.registry)
        /\ DOMAIN encoding.e.registry = 1..output.nvars
        /\ \A i \in 1..Len(output.clauses) :
              /\ output.clauses[i] # <<>>
              /\ \A k \in 1..Len(output.clauses[i]) :
                    /\ output.clauses[i][k] # 0
                    /\ Abs(output.clauses[i][k]) <= output.nvars

\* the DIMACS file of an instance with a couple is written
C16_Witness ==
    /\ pc = "exit"
    /\ output.kind = "dimacs"
    /\ problem.kind = "instance"
    /\ problem.couples # <<>>

\* C17: with --formulate the instance is written, no solver runs, a
\* missing solver path is no error, the matching stays empty and no
\* matching file is written; without --formulate a missing solver path
\* ends main with an exception before a solver runs.
C17_FormulateNeedsNoSolver ==
    /\ args.formulate =>
          /\ solver_output = NoValue
          /\ matching = <<>>
          /\ output.kind # "matching"
          /\ exception # "no solver path"
          /\ pc = "exit" /\ exception = "" => output.kind \in {"dimacs", "lp"}
    /\ NoSolverPath =>
          /\ solver_output = NoValue
          /\ encoding = NoValue
          /\ pc = "exit" => exception = "no solver path" /\ output = NoValue

\* main has formulated an instance without a solver path
C17_Witness ==
    /\ pc = "exit"
    /\ args.formulate
    /\ ~args.solver_path
    /\ output.kind \in {"dimacs", "lp"}

\* the instance args.problem loaded in a process that loads nothing else
LoadedAlone ==
    LET L == from_file(args.problem, FALSE, <<>>,
                       (NIL_HOSPITAL_UID :> NIL_HOSPITAL), <<>>, set_order)
    IN  [hospitals |-> L.hospitals, singles |-> L.singles,
         couples |-> L.couples, resident_dict |-> L.resident_dict,
         hospital_dict |-> L.hospital_dict, couple_dict |-> L.couple_dict]

\* C18: the constraints emitted for an instance are those of the instance
\* alone, also when a second instance was loaded before the encoding.
C18_InstancesApart ==
    pc = "exit" /\ args.other # <<>> =>
        /\ exception = ""
        /\ args.solver = "sat" =>
              output = dimacs_file(sat_encode(LoadedAlone, set_order))
        /\ args.solver = "mip" =>
              output = lp_file(mip_encode(LoadedAlone))

\* the number of the i residents hospital h prefers most that the
\* satisfying assignment model matches to h
MatchedAmong(e, h, i, model) ==
    Cardinality({k \in 1..i : model[e.res_match[<<h.prefs[k], h.uid>>]]})

\* the hospitals of the instance whose CNF is in encoding
EncodedHospitals ==
    {problem.hospitals[n] : n \in 1..Len(problem.hospitals)}

\* the residents the matching mu puts in hospital h
PutIn(mu, h) == {r \in DOMAIN mu : mu[r] = h.uid}

\* C19: in every satisfying assignment of the CNF, q[h][i][j] is true iff
\* exactly j of the i residents h prefers most have their matching
\* variable to h true, for every i in 1..|rank(h)| and j in
\* 0..min(i, cap(h)+1); so no satisfying assignment matches more than
\* cap(h) residents to h, nor does the matching decoded from it.
C19_CounterExact ==
    SatEncoded /\ encoding.kind = "cnf" =>
        \A model \in sat_models(encoding.e) :
            \A h \in EncodedHospitals :
                /\ \A i \in 1..Len(h.prefs) :
                      \A j \in 0..Min(i, h.capacity + 1) :
                          /\ <<h.uid, i, j>> \in DOMAIN encoding.e.q
                          /\ model[encoding.e.q[<<h.uid, i, j>>]]
                                <=> MatchedAmong(encoding.e, h, i, model) = j
                /\ MatchedAmong(encoding.e, h, Len(h.prefs), model)
                      <= h.capacity
                /\ Cardinality(PutIn(sat_decode(encoding.e, Instance, model), h))
                      <= h.capacity

\* a satisfying assignment fills a hospital that ranks at least two
\* residents more than it has places
C19_Witness ==
    /\ SatEncoded
    /\ encoding.kind = "cnf"
    /\ \E model \in sat_models(encoding.e) :
          \E h \in EncodedHospitals :
              /\ h.capacity >= 1
              /\ Len(h.prefs) >= h.capacity + 2
              /\ MatchedAmong(encoding.e, h, Len(h.prefs), model) = h.capacity

\* the satisfying assignment model matches the members of couple to the
\* pair of their list at rank number (counted from 0)
AtRank(e, couple, number, model) ==
    /\ model[e.res_match[<<couple.residents[1], couple.prefs[number + 1][1]>>]]
    /\ model[e.res_match[<<couple.residents[2], couple.prefs[number + 1][2]>>]]

\* model leaves both members of couple unmatched
AtNil(e, couple, model) ==
    /\ model[e.res_match[<<couple.residents[1], NIL_HOSPITAL_UID>>]]
    /\ model[e.res_match[<<couple.residents[2], NIL_HOSPITAL_UID>>]]

\* the couples of the instance whose CNF is in encoding
EncodedCouples ==
    {problem.couples[n] : n \in 1..Len(problem.couples)}

\* C20: in every satisfying assignment of the CNF, cpref[c][k] is true iff
\* the members of c are matched to the pair of rank k or to a pair of
\* better rank, for k in 0..|pairs|-1, and cpref[c][|pairs|] is true iff c
\* is matched to a pair of its list or to (nil, nil).
C20_CprefExact ==
    SatEncoded /\ encoding.kind = "cnf" =>
        \A model \in sat_models(encoding.e) :
            \A couple \in EncodedCouples :
                /\ \A k \in 0..(Len(couple.prefs) - 1) :
                      /\ <<couple.uid, k>> \in DOMAIN encoding.e.cpref
                      /\ model[encoding.e.cpref[<<couple.uid, k>>]]
                           <=> \E number \in 0..k :
                                  AtRank(encoding.e, couple, number, model)
                /\ <<couple.uid, Len(couple.prefs)>> \in DOMAIN encoding.e.cpref
                /\ model[encoding.e.cpref[<<couple.uid, Len(couple.prefs)>>]]
                     <=> \/ \E number \in 0..(Len(couple.prefs) - 1) :
                               AtRank(encoding.e, couple, number, model)
                         \/ AtNil(encoding.e, couple, model)

\* a satisfying assignment matches a couple to its second pair and not to
\* its first
C20_Witness ==
    /\ SatEncoded
    /\ encoding.kind = "cnf"
    /\ \E couple \in EncodedCouples :
          /\ Len(couple.prefs) >= 2
          /\ \E model \in sat_models(encoding.e) :
                /\ AtRank(encoding.e, couple, 1, model)
                /\ ~AtRank(encoding.e, couple, 0, model)

\* C21: from_file with append_nil=True loads every well-formed file, a
\* resident with an empty list or with the list -1 included, and every
\* single's list ends with the nil hospital, every couple's with (nil, nil).
C21_AppendNilCanonical ==
    call.op = "from_file" /\ call.done =>
        /\ call.err = ""
        /\ \A i \in 1..Len(call.singles) :
              /\ call.singles[i].prefs # <<>>
              /\ Last(call.singles[i].prefs) = NIL_HOSPITAL_UID
        /\ \A i \in 1..Len(call.couples) :
              /\ call.couples[i].prefs # <<>>
              /\ Last(call.couples[i].prefs)
                    = <<NIL_HOSPITAL_UID, NIL_HOSPITAL_UID>>

\* C22: get_ranked_hospitals(member) is the projection of the couple's
\* pair list onto the member's coordinate, without duplicates, in the
\* order of the first occurrences.
C22_RankedInListOrder ==
    call.op = "get_ranked_hospitals" /\ call.done =>
        call.result = Distinct(MapSeq(LAMBDA p : p[call.member + 1],
                                      call.internal_list))

\* the positions of the list queried that hold the agent queried
QueriedAt == {k \in 1..Len(call.internal_list) : call.internal_list[k] = call.uid}

\* C23: for a duplicate-free list L and x in L, get_all_preferred(x) is the
\* items before x in list order, get_all_weakly_preferred(x) is that list
\* followed by x, get_all_dispreferred(x) is exactly the items after x,
\* get_rank(x) is the length of get_all_preferred(x), and preferred, {x},
\* dispreferred partition L; for x not in L every query fails.
C23_PreferenceQueries ==
    call.op = "queries" /\ call.done =>
        LET L == call.internal_list
            R == call.result
            before == R.get_all_preferred.value
            after == R.get_all_dispreferred.value
        IN  IF QueriedAt = {}
            THEN /\ R.get_all_preferred.err # ""
                 /\ R.get_all_weakly_preferred.err # ""
                 /\ R.get_all_dispreferred.err # ""
                 /\ R.get_rank.err # ""
            ELSE \A k \in QueriedAt :
                 /\ R.get_all_preferred.err = ""
                 /\ R.get_all_weakly_preferred.err = ""
                 /\ R.get_all_dispreferred.err = ""
                 /\ R.get_rank.err = ""
                 /\ before = [i \in 1..(k - 1) |-> L[i]]
                 /\ R.get_all_weakly_preferred.value = before \o <<call.uid>>
                 /\ Len(after) = Len(L) - k
                 /\ Range(after) = {L[i] : i \in (k + 1)..Len(L)}
                 /\ R.get_rank.value = Len(before)
                 /\ Range(before) \cup {call.uid} \cup Range(after) = Range(L)
                 /\ Range(before) \cap Range(after) = {}
                 /\ call.uid \notin Range(before) \cup Range(after)

\* the agent queried is in the middle of a list of three
C23_Witness ==
    /\ call.op = "queries"
    /\ call.done
    /\ Len(call.internal_list) = 3
    /\ QueriedAt = {2}
    /\ call.result.get_rank.value = 1

\* the number of the residents hospital h ranks that the LP variable var,
\* at 1, puts in h: a couple at the pair (h, h) counts twice
Occupants(var, h) ==
    IF var[1] # "x" THEN 0
    ELSE IF Len(var) = 3
    THEN IF var[3] = h.uid /\ var[2] \in Range(h.prefs) THEN 1 ELSE 0
    ELSE LET couple == couple_dict[var[2]]
         IN  (IF var[3] = h.uid /\ couple.residents[1] \in Range(h.prefs)
              THEN 1 ELSE 0)
             + (IF var[4] = h.uid /\ couple.residents[2] \in Range(h.prefs)
                THEN 1 ELSE 0)

\* the sum of the coefficients of var in the row
CoefficientOf(row, var) ==
    FoldSeq(LAMBDA acc, t : IF t.var = var THEN acc + t.coeff ELSE acc,
            0, row.terms)

\* the row bounds the occupants of hospital h by its capacity
CapacityRowOf(row, h) ==
    /\ row.kind = "<="
    /\ row.const = h.capacity
    /\ \A k \in 1..Len(row.terms) : row.terms[k].coeff = 1
    /\ \A var \in Range(encoding.m.binaries) :
          CoefficientOf(row, var) = Occupants(var, h)

\* the rows of the LP that bound a sum of variables from above
BoundingRows ==
    {n \in 1..Len(encoding.m.constraints) :
        /\ encoding.m.constraints[n].kind = "<="
        /\ \A k \in 1..Len(encoding.m.constraints[n].terms) :
              encoding.m.constraints[n].terms[k].coeff > 0}

\* C24: solve_mip emits, for every hospital with a non-empty list, one row
\* that bounds by the capacity the occupants of the hospital, a couple at
\* (h, h) counted twice; no other row bounds a sum from above, so none
\* constrains the nil hospital; and in every 0/1 solution no hospital
\* holds more residents than its capacity.
C24_MipCapacity ==
    pc = "mip_solver" =>
        /\ \A h \in EncodedHospitals :
              h.prefs # <<>> =>
                 Cardinality({n \in BoundingRows :
                    CapacityRowOf(encoding.m.constraints[n], h)}) >= 1
        /\ Cardinality(BoundingRows)
              = Cardinality({n \in 1..Len(problem.hospitals) :
                                problem.hospitals[n].prefs # <<>>})
        /\ \A vals \in mip_solutions(encoding.m) :
              \A h \in EncodedHospitals :
                  Cardinality(PutIn(mip_decode(Instance, vals), h)) <= h.capacity

\* a solution of the LP has the couple in the two places of one hospital
C24_Witness ==
    /\ pc = "mip_solver"
    /\ \E vals \in mip_solutions(encoding.m) :
          \E h \in EncodedHospitals :
              /\ h.capacity = 2
              /\ \E var \in vals : Occupants(var, h) = 2

\* the row is the match row over the variables options: each of them
\* once with the coefficient 1, no other variable, the right side 1
MatchRowOf(row, options, binaries) ==
    /\ row.kind = "="
    /\ row.const = 1
    /\ \A var \in Range(binaries) \cup options :
          CoefficientOf(row, var) = IF var \in options THEN 1 ELSE 0

\* the variables of the options of a single: its list and the nil hospital
SingleOptions(single) ==
    {x_single(single.uid, h) : h \in Range(single.prefs) \cup {NIL_HOSPITAL_UID}}

\* the variables of the options of a couple: its pairs and (nil, nil)
CoupleOptions(couple) ==
    {x_couple(couple.uid, pair) :
        pair \in Range(couple.prefs)
                 \cup {<<NIL_HOSPITAL_UID, NIL_HOSPITAL_UID>>}}

\* C25: solve_mip emits for every single and every couple an equality row
\* with each option of the list and the nil option exactly once, with the
\* coefficient 1 and the right side 1, also when the list contains nil or
\* (nil, nil).
C25_MipMatchRows ==
    call.op = "solve_mip" /\ call.done =>
        /\ call.err = ""
        /\ \A i \in 1..Len(call.singles) :
              \E n \in 1..Len(call.constraints) :
                  MatchRowOf(call.constraints[n],
                             SingleOptions(call.singles[i]), call.binaries)
        /\ \A i \in 1..Len(call.couples) :
              \E n \in 1..Len(call.constraints) :
                  MatchRowOf(call.constraints[n],
                             CoupleOptions(call.couples[i]), call.binaries)

\* solve_mip has passed the encoding of an instance
MipEncoded ==
    /\ args.solver = "mip"
    /\ problem.kind = "instance"
    /\ encoding.kind = "lp"

\* the pairs of distinct hospitals of capacity 1 or more on the list of a
\* couple of the instance: those the case enumeration of the double switch
\* goes through
EnumeratedPairs ==
    {pair \in UNION {Range(couple.prefs) : couple \in EncodedCouples} :
        /\ pair[1] # pair[2]
        /\ pair[1] \in DOMAIN hospital_dict
        /\ pair[2] \in DOMAIN hospital_dict
        /\ hospital_dict[pair[1]].capacity # 0
        /\ hospital_dict[pair[2]].capacity # 0}

\* C26: with capacities >= 0 (the nil hospital has 10) the case
\* enumeration of the double-switch family never reaches the exception
\* 'should never get here'.
C26_NeverGetHere ==
    exception # "should never get here"

\* the LP is written for a couple whose list has a pair of two hospitals
\* of capacity 2, a pair with a hospital of capacity 1 and a pair with nil
C26_Witness ==
    /\ MipEncoded
    /\ encoding.kind = "lp"
    /\ \E pair \in EnumeratedPairs :
          /\ NIL_HOSPITAL_UID \notin Range(pair)
          /\ hospital_dict[pair[1]].capacity = 2
          /\ hospital_dict[pair[2]].capacity = 2

\* the alpha variables of the pairs <<r1, h1>>
AlphasOf(pairs) == {alpha_var(p[1], p[2]) : p \in pairs}

\* <<r1, h1>> for the second member r1 of a couple and every hospital h1,
\* not nil and of capacity above 1, in the second place of a pair of the
\* couple's list
SecondMemberHospitals ==
    UNION {{<<couple.residents[2], pair[2]>> :
              pair \in {pair \in Range(couple.prefs) :
                          /\ pair[2] # NIL_HOSPITAL_UID
                          /\ hospital_dict[pair[2]].capacity > 1}} :
           couple \in EncodedCouples}

\* the same, for the pairs whose two hospitals are not nil and of capacity
\* above 1
SecondMemberOfLargePairs ==
    UNION {{<<couple.residents[2], pair[2]>> :
              pair \in {pair \in Range(couple.prefs) :
                          /\ pair[1] # NIL_HOSPITAL_UID
                          /\ hospital_dict[pair[1]].capacity > 1
                          /\ pair[2] # NIL_HOSPITAL_UID
                          /\ hospital_dict[pair[2]].capacity > 1}} :
           couple \in EncodedCouples}

\* the alpha variables that occur in the rows of the LP
AlphasInRows ==
    UNION {{encoding.m.constraints[n].terms[k].var :
              k \in {k \in 1..Len(encoding.m.constraints[n].terms) :
                       encoding.m.constraints[n].terms[k].var[1] = "alpha"}} :
           n \in 1..Len(encoding.m.constraints)}

\* the rows that define the variable alpha: those that bound it from above
DefiningRows(alpha) ==
    {n \in 1..Len(encoding.m.constraints) :
        CoefficientOf(encoding.m.constraints[n], alpha) > 0}

\* the residents the matching mu puts in h among those h weakly prefers to r
HeldWeaklyPreferred(mu, h, r) ==
    PutIn(mu, h) \cap Range(get_all_weakly_preferred(h.prefs, r))

\* every generated alpha is declared once, has one defining row, and at 1
\* fills its hospital with residents weakly preferred to the second
\* member; every alpha of a row is generated
AlphasWellDefined ==
    /\ AlphasInRows \subseteq Range(encoding.m.binaries)
    /\ \A p \in SecondMemberHospitals :
          alpha_var(p[1], p[2]) \in Range(encoding.m.binaries) =>
             /\ Cardinality({k \in 1..Len(encoding.m.binaries) :
                   encoding.m.binaries[k] = alpha_var(p[1], p[2])}) = 1
             /\ Cardinality(DefiningRows(alpha_var(p[1], p[2]))) = 1
             /\ \A vals \in mip_solutions(encoding.m) :
                   alpha_var(p[1], p[2]) \in vals =>
                      Cardinality(HeldWeaklyPreferred(
                          mip_decode(Instance, vals), hospital_dict[p[2]], p[1]))
                        = hospital_dict[p[2]].capacity

\* C27 as stated: solve_mip generates one alpha_{r1,h1}, declared binary
\* with one defining row, for every second member r1 of a couple and
\* hospital h1 of its pairs that is not nil and has a capacity above 1;
\* every alpha of a row is generated; alpha = 1 implies that h1 holds
\* capacity residents it weakly prefers to r1.
C27_AlphaPerHospital ==
    pc = "mip_solver" =>
        /\ {var \in Range(encoding.m.binaries) : var[1] = "alpha"}
              = AlphasOf(SecondMemberHospitals)
        /\ AlphasWellDefined

\* C27 amended: the alpha variables are those of the pairs whose two
\* hospitals are not nil and have a capacity above 1; each is declared
\* once with one defining row; every alpha of a row is generated;
\* alpha = 1 implies that h1 holds capacity residents it weakly prefers to
\* r1.
C27_AlphaPerLargePair ==
    pc = "mip_solver" =>
        /\ {var \in Range(encoding.m.binaries) : var[1] = "alpha"}
              = AlphasOf(SecondMemberOfLargePairs)
        /\ AlphasWellDefined

\* the LP has an alpha variable with its defining row, and a solution has
\* it at 1
C27_Witness ==
    /\ pc = "mip_solver"
    /\ \E p \in SecondMemberOfLargePairs :
          /\ DefiningRows(alpha_var(p[1], p[2])) # {}
          /\ \E vals \in mip_solutions(encoding.m) :
                alpha_var(p[1], p[2]) \in vals

\* the triples <<hospital uid, resident uid, number>> the stability clauses
\* of the instance hand to append_q_vars
CounterTriples ==
    UNION {{<<h, problem.singles[n].uid, hospital_dict[h].capacity>> :
               h \in Range(problem.singles[n].prefs)} :
           n \in 1..Len(problem.singles)}
    \cup UNION {UNION {
           {<<pair[1], couple.residents[1], hospital_dict[pair[1]].capacity>>,
            <<pair[2], couple.residents[2], hospital_dict[pair[2]].capacity>>}
           \cup (IF pair[1] # pair[2] THEN {}
                 ELSE IF get_rank(hospital_dict[pair[1]].prefs, couple.residents[1])
                          < get_rank(hospital_dict[pair[1]].prefs, couple.residents[2])
                 THEN {<<pair[2], couple.residents[2],
                         hospital_dict[pair[2]].capacity - 1>>}
                 ELSE {<<pair[1], couple.residents[1],
                         hospital_dict[pair[1]].capacity - 1>>}) :
           pair \in Range(couple.prefs)} : couple \in EncodedCouples}

\* append_q_vars turns the triple into a literal: the hospital is not nil
\* and ranks the resident at number or beyond (ranks from 0)
TurnedIntoLiteral(t) ==
    /\ t[1] # NIL_HOSPITAL_UID
    /\ get_rank(hospital_dict[t[1]].prefs, t[2]) >= 0
    /\ get_rank(hospital_dict[t[1]].prefs, t[2]) >= t[3]

\* the q loop allocated the variable the triple reads
CounterAllocated(t) ==
    LET rank == get_rank(hospital_dict[t[1]].prefs, t[2])
    IN  /\ 1 <= rank
        /\ rank <= Len(hospital_dict[t[1]].prefs)
        /\ 0 <= t[3]
        /\ t[3] <= Min(rank, hospital_dict[t[1]].capacity + 1)

\* C28: every counter variable a stability clause refers to exists: each
\* triple append_q_vars turns into a literal reads an allocated
\* q[h][rank][n], and the encoder does not fail.
C28_CountersExist ==
    SatEncoded =>
        /\ \A t \in CounterTriples : TurnedIntoLiteral(t) => CounterAllocated(t)
        /\ exception # "KeyError"

\* main has written the matching file after a run of the solver
MatchingWritten ==
    /\ pc = "exit"
    /\ output.kind = "matching"
    /\ solver_output.kind # "none"

\* C29: in solve mode, for both back-ends, the matching file has the
\* header 'm 0' if and only if the solver reported infeasible or
\* UNSATISFIABLE; a solution that leaves every resident unmatched gives a
\* file with the header 'm 1'.
C29_EmptyIffInfeasible ==
    MatchingWritten =>
        (output.file.m = 0
           <=> solver_output.kind \in {"UNSATISFIABLE", "infeasible"})

\* the ids of the matching variables solve_sat keeps in res_match
MatchIds(e) == {e.res_match[k] : k \in DOMAIN e.res_match}

\* the ids that occur in a clause of the CNF
ClauseIds(e) ==
    UNION {{IF e.clauses[n][k] < 0 THEN -e.clauses[n][k] ELSE e.clauses[n][k] :
              k \in 1..Len(e.clauses[n])} : n \in 1..Len(e.clauses)}

\* every id has a name of its own, is a matching, q or cpref variable,
\* and occurs in a clause
IdsDenoteVariables(e) ==
    /\ \A a, b \in 1..e.last_uid : e.registry[a] = e.registry[b] => a = b
    /\ \A a \in 1..e.last_uid :
          /\ e.registry[a][1] \in {"xr", "xc"} <=> a \in MatchIds(e)
          /\ a \in ClauseIds(e)

\* two satisfying assignments equal on the matching variables are equal
DeterminedByMatching(e) ==
    \A m1, m2 \in sat_models(e) :
        (\A a \in MatchIds(e) : m1[a] = m2[a]) => m1 = m2

\* C30: every DIMACS id solve_sat allocates denotes a distinct matching, q
\* or cpref variable that occurs in some clause, and two satisfying
\* assignments of the CNF that agree on the res_match variables agree on
\* every variable.
C30_AuxiliaryDetermined ==
    SatEncoded /\ encoding.kind = "cnf" =>
        /\ IdsDenoteVariables(encoding.e)
        /\ DeterminedByMatching(encoding.e)

====
